---- MODULE Spec2Model ----
(***************************************************************************)
(* The assistant request pipeline of xiao.sh                               *)
(* (src/src/app/api/ai-search/route.ts): the POST handler with its tool    *)
(* router, the rotating model pool, the email-draft capability and the     *)
(* context-Q&A retry loop.                                                 *)
(*                                                                         *)
(* One request is handled at a time in Spec; the pool cache, the rotation  *)
(* cursor and the clock persist from one request to the next.  Each action *)
(* is the continuation of the handler between two awaits.                  *)
(***************************************************************************)
EXTENDS Integers, Sequences, FiniteSets, TLC

(***************************************************************************)
(* Bounds of the model.                                                    *)
(***************************************************************************)
MaxMessages == 2      \* longest `messages` array a request carries
MaxNow == 1           \* the clock runs 0..MaxNow

(***************************************************************************)
(* Program constants (route.ts:8-15, 615, 915).                            *)
(***************************************************************************)
DEFAULT_REFRESH_MS == 900000          \* 15 * 60 * 1000
DEFAULT_MODEL_POOL_SIZE == 8
MAX_CONVERSATION_MESSAGES == 50
MAX_OPENROUTER_FALLBACK_MODELS == 3
MAX_REQUEST_ATTEMPTS == 4
RETRY_BACKOFF_MS == 350
TOOL_ROUTER_HISTORY_LIMIT == 10
ROUTER_ATTEMPTS == 3
EMAIL_ATTEMPTS == 3
DEFAULT_FALLBACK_MODELS == <<"openrouter/free">>

Min(a, b) == IF a < b THEN a ELSE b

\* F applied to the value of e.  TLC evaluates a LET definition and an operator
\* argument where it is first used, inside the operator that uses it; a long
\* pipeline of string operations is written with With so that each stage is
\* evaluated before the next one starts.
With(e, F(_)) == CHOOSE r \in {F(v) : v \in {e}} : TRUE

\* Array.prototype.slice(from) / slice(0, n) / slice(-n) on a sequence.
SliceTo(s, n) == SubSeq(s, 1, Min(n, Len(s)))
SliceLast(s, n) == SubSeq(s, (IF Len(s) > n THEN Len(s) - n ELSE 0) + 1, Len(s))

(***************************************************************************)
(* Texts.  A string is modelled as a sequence of tokens.  A token is a     *)
(* word, a number-led word ("2pm"), an email address, a punctuation mark,  *)
(* one character outside the Basic Multilingual Plane (two UTF-16 code     *)
(* units), a run of blanks or a run of line breaks.  w is the token in     *)
(* lower case (the patterns of the code are case-insensitive), n its       *)
(* length in UTF-16 code units, up whether its first letter is upper case, *)
(* cut whether slice() cut it short.  An astral character cut short is a   *)
(* lone surrogate.  Words stand next to each other only across a run of    *)
(* white space or a punctuation mark.                                      *)
(***************************************************************************)
Tok(k, w, n, up) == [k |-> k, w |-> w, n |-> n, up |-> up, cut |-> FALSE]
Wd(w) == Tok("w", w, Len(w), FALSE)          \* a word in lower case
Cap(w) == Tok("w", w, Len(w), TRUE)          \* a word with a capital first letter
Num(w) == Tok("d", w, Len(w), FALSE)         \* a token that starts with a digit
Addr(w) == Tok("a", w, Len(w), FALSE)        \* an email address
Pun(w) == Tok("p", w, Len(w), FALSE)         \* punctuation
Astral == Tok("x", "astral", 2, FALSE)       \* e.g. an emoji: a surrogate pair
SP == Tok("s", " ", 1, FALSE)                \* one blank
NL(n) == Tok("n", "\n", n, FALSE)            \* n line breaks

IsBlank(t) == t.k = "s"
IsBreak(t) == t.k = "n"
IsWs(t) == t.k \in {"s", "n"}
\* \b(w1|w2|...)\b with the i flag
IsWord(t, S) == t.k = "w" /\ ~t.cut /\ t.w \in S
\* [A-Za-z][\w'-]* as a whole token
IsPlainWord(t) == t.k = "w"
IsLoneSurrogate(t) == t.k = "x" /\ t.n = 1

RECURSIVE UnitsIn(_, _, _)
\* the UTF-16 code units of s[a..b]
UnitsIn(s, a, b) ==
    IF a > b THEN 0
    ELSE IF a = b THEN s[a].n
    ELSE UnitsIn(s, a, (a + b) \div 2) + UnitsIn(s, (a + b) \div 2 + 1, b)
\* String.prototype.length
Units(s) == UnitsIn(s, 1, Len(s))

RECURSIVE FlattenIn(_, _, _)
FlattenIn(ss, a, b) ==
    IF a > b THEN <<>>
    ELSE IF a = b THEN ss[a]
    ELSE FlattenIn(ss, a, (a + b) \div 2) \o FlattenIn(ss, (a + b) \div 2 + 1, b)
\* the concatenation of a sequence of texts
Flatten(ss) == FlattenIn(ss, 1, Len(ss))

\* the first index from i on whose token satisfies P, Len(s) + 1 when there is none
FirstFrom(s, i, P(_)) ==
    IF \E j \in i..Len(s) : P(s[j])
    THEN CHOOSE j \in i..Len(s) : P(s[j]) /\ \A m \in i..(j - 1) : ~P(s[m])
    ELSE Len(s) + 1
\* the last index whose token satisfies P, 0 when there is none
LastWhere(s, P(_)) ==
    IF \E j \in 1..Len(s) : P(s[j])
    THEN CHOOSE j \in 1..Len(s) : P(s[j]) /\ \A m \in (j + 1)..Len(s) : ~P(s[m])
    ELSE 0
NotWs(t) == ~IsWs(t)
\* the index that ends the run of white space that position i is in
RunEnd(s, i) == FirstFrom(s, i, NotWs) - 1

TrimStart(s) == SubSeq(s, FirstFrom(s, 1, NotWs), Len(s))
TrimEnd(s) == SubSeq(s, 1, LastWhere(s, NotWs))
\* String.prototype.trim
Trim(s) == TrimEnd(TrimStart(s))

\* String.prototype.slice(0, n): the first n code units
SliceUnits(s, n) ==
    IF n <= 0 THEN <<>>
    ELSE LET k == CHOOSE k \in 0..Len(s) :
                     /\ UnitsIn(s, 1, k) <= n
                     /\ k = Len(s) \/ UnitsIn(s, 1, k + 1) > n
             left == n - UnitsIn(s, 1, k)
         IN  SubSeq(s, 1, k)
             \o (IF k < Len(s) /\ left > 0
                 THEN <<[s[k + 1] EXCEPT !.n = left, !.cut = ~IsWs(s[k + 1])]>>
                 ELSE <<>>)

\* replace(/\s+/g, " ")
CollapseWs(s) ==
    Flatten([i \in 1..Len(s) |->
        IF ~IsWs(s[i]) THEN <<s[i]>>
        ELSE IF i > 1 /\ IsWs(s[i - 1]) THEN <<>>
        ELSE <<SP>>])

RECURSIVE WordsFrom(_, _)
\* the maximal runs of tokens that are not white space, from position i on
WordsFrom(s, i) ==
    LET a == FirstFrom(s, i, NotWs)
        b == FirstFrom(s, a, IsWs) - 1
    IN  IF a > Len(s) THEN <<>> ELSE <<SubSeq(s, a, b)>> \o WordsFrom(s, b + 1)
\* split(/\s+/).filter(Boolean)
SplitWords(s) == WordsFrom(s, 1)

\* Array.prototype.join(sep)
JoinWith(ws, sep) == Flatten([i \in 1..Len(ws) |-> IF i = 1 THEN ws[i] ELSE sep \o ws[i]])

\* charAt(0).toUpperCase() + slice(1)
UpperFirst(s) ==
    IF s = <<>> THEN s ELSE <<[Head(s) EXCEPT !.up = (Head(s).k = "w")]>> \o Tail(s)
\* /^[a-z]/
StartsLowerCase(s) == s # <<>> /\ Head(s).k = "w" /\ ~Head(s).up

(***************************************************************************)
(* A pattern is a sequence of elements, matched at the start of a text:    *)
(* \s+, one word out of a set, any plain word, an email address, or a      *)
(* lookahead (?=(w1|w2)\b).  Match gives what follows the match.           *)
(***************************************************************************)
WS == [e |-> "ws", set |-> {}]
OneOf(S) == [e |-> "set", set |-> S]
PLAIN == [e |-> "plain", set |-> {}]
ADDR == [e |-> "addr", set |-> {}]
Peek(S) == [e |-> "peek", set |-> S]
NoMatch == [ok |-> FALSE, rest |-> <<>>]

RECURSIVE Match(_, _)
Match(s, pat) ==
    IF pat = <<>> THEN [ok |-> TRUE, rest |-> s]
    ELSE IF s = <<>> THEN NoMatch
    ELSE LET t == Head(s)
             p == Head(pat)
         IN  CASE p.e = "ws" ->
                    IF IsWs(t) THEN Match(TrimStart(s), Tail(pat)) ELSE NoMatch
               [] p.e = "set" ->
                    IF IsWord(t, p.set) THEN Match(Tail(s), Tail(pat)) ELSE NoMatch
               [] p.e = "plain" ->
                    IF IsPlainWord(t) THEN Match(Tail(s), Tail(pat)) ELSE NoMatch
               [] p.e = "addr" ->
                    IF t.k = "a" THEN Match(Tail(s), Tail(pat)) ELSE NoMatch
               [] p.e = "peek" ->
                    IF IsWord(t, p.set) THEN Match(s, Tail(pat)) ELSE NoMatch

RECURSIVE MatchAny(_, _)
\* the first alternative (in the order the regex engine tries them) that matches
MatchAny(s, pats) ==
    IF pats = <<>> THEN NoMatch
    ELSE IF Match(s, Head(pats)).ok THEN Match(s, Head(pats))
    ELSE MatchAny(s, Tail(pats))

\* replace(/^(alt1|alt2|...)/, "")
StripLead(s, pats) == IF MatchAny(s, pats).ok THEN MatchAny(s, pats).rest ELSE s

From(s, i) == SubSeq(s, i, Len(s))
\* RegExp.prototype.test for patterns that start at a word
HasMatch(s, pats) == \E i \in 1..Len(s) : MatchAny(From(s, i), pats).ok
\* where the leftmost match starts
FirstMatch(s, pats) ==
    CHOOSE i \in 1..Len(s) :
        /\ MatchAny(From(s, i), pats).ok
        /\ \A j \in 1..(i - 1) : ~MatchAny(From(s, j), pats).ok

RECURSIVE ReplaceAll(_, _, _)
\* replace(/(alt1|alt2|...)/g, rep)
ReplaceAll(s, pats, rep) ==
    IF ~HasMatch(s, pats) THEN s
    ELSE SubSeq(s, 1, FirstMatch(s, pats) - 1) \o rep
         \o ReplaceAll(MatchAny(From(s, FirstMatch(s, pats)), pats).rest, pats, rep)

\* replace(/\b(w1|w2|...)\b/gi, rep)
ReplaceWords(s, S, rep) ==
    Flatten([i \in 1..Len(s) |-> IF IsWord(s[i], S) THEN rep ELSE <<s[i]>>])
HasWord(s, S) == \E i \in 1..Len(s) : IsWord(s[i], S)
\* /\b(w1 w2)\b/: the two words one blank apart
HasPhrase(s, w1, w2) ==
    \E i \in 1..Len(s) :
        /\ i + 2 <= Len(s)
        /\ IsWord(s[i], {w1}) /\ s[i + 1] = SP /\ IsWord(s[i + 2], {w2})

IsSentenceEnd(t) == t.k = "p" /\ t.w \in {".", "?", "!"}
IsMark(t) == t.k = "p" /\ t.w \in {",", ".", "!", "?", ";", ":"}

\* replace(/\s+([,.!?;:])/g, "$1")
DropWsBeforeMarks(s) ==
    Flatten([i \in 1..Len(s) |->
        IF IsWs(s[i]) /\ RunEnd(s, i) < Len(s) /\ IsMark(s[RunEnd(s, i) + 1])
        THEN <<>> ELSE <<s[i]>>])

\* the line breaks of s[a..b]
BreaksIn(s, a, b) ==
    UnitsIn([i \in 1..Len(s) |-> IF IsBreak(s[i]) THEN s[i] ELSE [s[i] EXCEPT !.n = 0]], a, b)

\* replace(/[ \t]+/g, " "), (/[ \t]+\n/g, "\n"), (/\n[ \t]+/g, "\n"), (/\n{3,}/g, "\n\n")
TidyWs(s) ==
    Flatten([i \in 1..Len(s) |->
        IF ~IsWs(s[i]) THEN <<s[i]>>
        ELSE IF i > 1 /\ IsWs(s[i - 1]) THEN <<>>
        ELSE IF BreaksIn(s, i, RunEnd(s, i)) = 0 THEN <<SP>>
        ELSE <<NL(Min(BreaksIn(s, i, RunEnd(s, i)), 2))>>])

(***************************************************************************)
(* The site owner (src/lib/profile.ts).                                    *)
(***************************************************************************)
ProfileNameParts == {"jerry", "xiao"}
ProfileEmail == <<Addr("jerry@xiao.sh")>>

CommandVerbs == {"send", "write", "draft", "compose"}
MailWords == {"email", "mail"}
Articles == {"a", "an"}
Prepositions == {"about", "regarding", "re", "on", "for"}

\* stripSelfReferences: the full name and each part of it become a blank
stripSelfReferences(value) == Trim(CollapseWs(ReplaceWords(value, ProfileNameParts, <<SP>>)))

\* mentionsProfileName
mentionsProfileName(value) == Trim(value) # <<>> /\ HasWord(value, ProfileNameParts)

\* stripLeadingRecipient: a leading "to", then a leading address or one to three
\* words that a preposition follows
stripLeadingRecipient(value) ==
    Trim(StripLead(StripLead(value, <<<<OneOf({"to"}), WS>>>>),
                   << <<ADDR, WS, Peek(Prepositions)>>,
                      <<PLAIN, WS, PLAIN, WS, PLAIN, WS, Peek(Prepositions)>>,
                      <<PLAIN, WS, PLAIN, WS, Peek(Prepositions)>>,
                      <<PLAIN, WS, Peek(Prepositions)>> >>))

\* looksLikeCommandText
looksLikeCommandText(value) ==
    Trim(value) # <<>> /\ IsWord(Head(Trim(value)), CommandVerbs \cup MailWords)

\* normalizeEmailIntentText
normalizeEmailIntentText(input) ==
    With(StripLead(CollapseWs(Trim(input)),
                   << <<OneOf({"can"}), WS, OneOf({"you"}), WS>>,
                      <<OneOf({"could"}), WS, OneOf({"you"}), WS>>,
                      <<OneOf({"please"}), WS>> >>), LAMBDA s1 :
    With(TrimStart(StripLead(s1,
                   << <<OneOf(CommandVerbs), WS, OneOf(Articles), WS, OneOf(MailWords)>>,
                      <<OneOf(CommandVerbs), WS, OneOf(MailWords)>> >>)), LAMBDA s2 :
    With(StripLead(s2, <<<<OneOf(CommandVerbs \cup MailWords), WS>>>>), LAMBDA s3 :
    With(Trim(StripLead(s3, << <<OneOf(Articles), WS, OneOf(MailWords), WS>>,
                               <<OneOf(MailWords), WS>> >>)), LAMBDA withoutPrefix :
    With(stripLeadingRecipient(withoutPrefix), LAMBDA s5 :
    stripSelfReferences(Trim(StripLead(s5, <<<<OneOf(Prepositions), WS>>>>))))))))

\* one token of fixCommonEmailTypos' word table
FixTypo(t) ==
    IF IsWord(t, {"im", "i'm"}) THEN <<Cap("i'm")>>
    ELSE IF IsWord(t, {"whatever"}) THEN <<Wd("whatever")>>
    ELSE IF IsWord(t, {"pls"}) THEN <<Wd("please")>>
    ELSE IF IsWord(t, {"thx"}) THEN <<Wd("thanks")>>
    ELSE IF IsWord(t, {"idk"}) THEN <<Cap("i"), SP, Wd("don't"), SP, Wd("know")>>
    ELSE IF IsWord(t, {"u"}) THEN <<Wd("you")>>
    ELSE IF IsWord(t, {"i", "i'd", "i'll"}) THEN <<[t EXCEPT !.up = TRUE]>>
    ELSE <<t>>

\* fixCommonEmailTypos
fixCommonEmailTypos(value) ==
    With(DropWsBeforeMarks(Flatten([i \in 1..Len(value) |-> FixTypo(value[i])])), LAMBDA s1 :
    Trim(TidyWs(s1)))

FirstPersonDown == << <<OneOf({"i'm"}), WS, OneOf({"down"})>>,
                      <<OneOf({"i"}), WS, OneOf({"am"}), WS, OneOf({"down"})>> >>
WouldLoveTo == << <<OneOf({"would"}), WS, OneOf({"love"}), WS, OneOf({"to"}), WS>>,
                  <<OneOf({"i'd"}), WS, OneOf({"love"}), WS, OneOf({"to"}), WS>> >>
TalkToThem == << <<OneOf({"talk", "chat", "connect"}), WS, OneOf({"to", "with"}), WS,
                   OneOf({"him", "her", "them"})>>,
                 <<OneOf({"talk", "chat", "connect"}), WS, OneOf({"him", "her", "them"})>> >>

\* [^.?!]*
DropSentenceRest(s) == From(s, FirstFrom(s, 1, IsSentenceEnd))

LovesToTalk(s) ==
    MatchAny(s, WouldLoveTo).ok /\ MatchAny(MatchAny(s, WouldLoveTo).rest, TalkToThem).ok
FirstLovesToTalk(s) ==
    CHOOSE i \in 1..Len(s) :
        LovesToTalk(From(s, i)) /\ \A j \in 1..(i - 1) : ~LovesToTalk(From(s, j))

RECURSIVE DropWouldLoveTo(_)
\* replace(/\b(?:would love to|i'd love to) (?:talk|chat|connect)( (?:to|with))? (?:him|her|them)\b[^.?!]*/gi, "")
DropWouldLoveTo(s) ==
    IF ~\E i \in 1..Len(s) : LovesToTalk(From(s, i)) THEN s
    ELSE LET at == From(s, FirstLovesToTalk(s))
         IN  SubSeq(s, 1, FirstLovesToTalk(s) - 1)
             \o DropWouldLoveTo(DropSentenceRest(
                    MatchAny(MatchAny(at, WouldLoveTo).rest, TalkToThem).rest))

DownToDoWhatever == <<WS, OneOf({"to"}), WS, OneOf({"do"}), WS, OneOf({"whatever"})>>
\* stripCasualIntentNoise
stripCasualIntentNoise(value) ==
    With(ReplaceAll(value, << FirstPersonDown[1] \o DownToDoWhatever,
                              FirstPersonDown[2] \o DownToDoWhatever >>, <<>>), LAMBDA a :
    With(ReplaceAll(a, << FirstPersonDown[1] \o <<WS, OneOf({"to"})>>,
                          FirstPersonDown[2] \o <<WS, OneOf({"to"})>> >>, <<>>), LAMBDA b :
    With(DropWouldLoveTo(ReplaceAll(b, FirstPersonDown, <<>>)), LAMBDA d :
    With(DropWsBeforeMarks(ReplaceWords(d, {"whatever", "maybe"}, <<>>)), LAMBDA f :
    Trim(CollapseWs(SelectSeq(f, LAMBDA t : ~(t.k = "p" /\ t.w = "?"))))))))

\* normalizeIntentForDraft
normalizeIntentForDraft(intentText) ==
    With(stripSelfReferences(intentText), LAMBDA s1 :
    With(fixCommonEmailTypos(Trim(StripLead(s1, <<<<OneOf({"about"}), WS>>>>))), LAMBDA s2 :
    stripCasualIntentNoise(s2)))

(***************************************************************************)
(* Subjects.                                                               *)
(***************************************************************************)
MinorWords == {"a", "an", "the", "at", "for", "to", "and", "or", "of", "on", "in", "with"}
SUBJECT_MAX == 72
RAW_SUBJECT_MAX == 120
BODY_MAX == 2000

LowerWord(w) == [i \in 1..Len(w) |-> [w[i] EXCEPT !.up = FALSE]]

\* one word of toTitleCase, the index-th of count words
TitleWord(w, index, count) ==
    IF Len(w) = 1 /\ IsWord(w[1], {"am", "pm"}) THEN <<[w[1] EXCEPT !.up = TRUE]>>
    ELSE IF index > 1 /\ index < count /\ Len(w) = 1 /\ IsWord(w[1], MinorWords)
         THEN LowerWord(w)
    ELSE UpperFirst(LowerWord(w))

\* toTitleCase
toTitleCase(value) ==
    With(SplitWords(Trim(value)), LAMBDA words :
    JoinWith([i \in 1..Len(words) |-> TitleWord(words[i], i, Len(words))], <<SP>>))

\* /\?.+\?/
HasTwoQuestionMarks(s) ==
    \E i, j \in 1..Len(s) :
        i + 1 < j /\ s[i].k = "p" /\ s[i].w = "?" /\ s[j].k = "p" /\ s[j].w = "?"

\* hasObviousSubjectIssues
hasObviousSubjectIssues(subject) ==
    LET wordCount == Len(SplitWords(subject))
        normalized == Trim(subject)
    IN  \/ Units(subject) > SUBJECT_MAX
        \/ wordCount > 12
        \/ wordCount < 4
        \/ Len(normalized) = 1 /\ IsWord(normalized[1], {"tomorrow", "today", "tonight", "hello"})
        \/ HasWord(subject, {"im", "whatever", "email", "mail"})
        \/ HasPhrase(subject, "down", "to")
        \/ HasTwoQuestionMarks(subject)
        \/ StartsLowerCase(subject)

(***************************************************************************)
(* Schedules.                                                              *)
(***************************************************************************)
DayWords == {"today", "tonight", "tomorrow", "monday", "tuesday", "wednesday", "thursday",
             "friday", "saturday", "sunday"}
NoTime == [hour |-> 0, minute |-> 0, meridiem |-> "none"]

\* (\d{1,2})(?::(\d{2}))?\s*(am|pm) on one token; the times of the model are
\* written without minutes
ClockOf(t) ==
    IF t.k # "d" \/ t.cut THEN NoTime
    ELSE CASE t.w = "3am" -> [hour |-> 3, minute |-> 0, meridiem |-> "am"]
           [] t.w = "2pm" -> [hour |-> 2, minute |-> 0, meridiem |-> "pm"]
           [] t.w = "13pm" -> [hour |-> 13, minute |-> 0, meridiem |-> "pm"]
           [] OTHER -> NoTime

\* the day named at the start of s: one word or "next week", "this week"
DayAt(s) ==
    IF s # <<>> /\ IsWord(Head(s), DayWords) THEN <<Head(s)>>
    ELSE IF Len(s) >= 3 /\ IsWord(s[1], {"next", "this"}) /\ s[2] = SP /\ IsWord(s[3], {"week"})
         THEN SubSeq(s, 1, 3)
    ELSE <<>>
\* the leftmost day of the text, <<>> when there is none
FirstDay(s) ==
    IF \E i \in 1..Len(s) : DayAt(From(s, i)) # <<>>
    THEN DayAt(From(s, CHOOSE i \in 1..Len(s) :
                          DayAt(From(s, i)) # <<>> /\ \A j \in 1..(i - 1) : DayAt(From(s, j)) = <<>>))
    ELSE <<>>

IsClock(t) == ClockOf(t) # NoTime
\* the leftmost clock time of the text
FirstClock(s) ==
    IF FirstFrom(s, 1, IsClock) > Len(s) THEN NoTime ELSE ClockOf(s[FirstFrom(s, 1, IsClock)])

\* formatScheduleDay
formatScheduleDay(day) == [i \in 1..Len(day) |-> [day[i] EXCEPT !.up = (day[i].k = "w")]]

\* extractScheduleParts
extractScheduleParts(value) ==
    With(FirstDay(value), LAMBDA dayRaw :
    With(FirstClock(value), LAMBDA clock :
    [dayRaw |-> dayRaw,
     dayFormatted |-> formatScheduleDay(dayRaw),
     time |-> IF clock.hour >= 1 /\ clock.hour <= 12 /\ clock.minute >= 0 /\ clock.minute <= 59
              THEN clock ELSE NoTime]))

Pad2(n) == IF n < 10 THEN "0" \o ToString(n) ELSE ToString(n)

\* formatScheduleTime(String(hour), minuteText, meridiem)
formatScheduleTime(hour, minuteText, meridiem) ==
    IF hour < 1 \/ hour > 12 THEN <<>>
    ELSE <<Num(ToString(hour)), Pun(":"), Num(minuteText), SP, Cap(meridiem)>>

ScheduleTime(parts) ==
    IF parts.time = NoTime THEN <<>>
    ELSE formatScheduleTime(parts.time.hour, Pad2(parts.time.minute), parts.time.meridiem)

\* formatScheduleLabel
formatScheduleLabel(parts) ==
    LET day == parts.dayFormatted
        time == ScheduleTime(parts)
    IN  IF day # <<>> /\ time # <<>> THEN day \o <<SP, Wd("at"), SP>> \o time
        ELSE IF day # <<>> THEN day
        ELSE IF time # <<>> THEN <<Wd("at"), SP>> \o time
        ELSE <<>>

\* formatScheduleClause
formatScheduleClause(parts) ==
    LET time == ScheduleTime(parts)
        rawLower == LowerWord(parts.dayRaw)
        relative == Len(rawLower) = 1 /\ IsWord(rawLower[1], {"today", "tonight", "tomorrow"})
        week == Len(rawLower) = 3
        dayClause == IF relative \/ week THEN rawLower ELSE <<Wd("on"), SP>> \o parts.dayFormatted
    IN  IF parts.dayRaw # <<>>
        THEN IF time # <<>> THEN dayClause \o <<SP, Wd("at"), SP>> \o time ELSE dayClause
        ELSE IF time # <<>> THEN <<Wd("at"), SP>> \o time ELSE <<>>

\* isOvernightTime
isOvernightTime(time) ==
    time # NoTime /\ time.meridiem = "am" /\ (time.hour = 12 \/ time.hour <= 5)

\* one token under replace(/[^\w\s]/g, " ") (keepHyphen: /[^\w\s:\/&-]+/g)
SymbolsToBlank(t, keepHyphen) ==
    IF t.k \in {"p", "x", "o"} THEN <<SP>>
    ELSE IF t.k = "a" THEN <<Wd("local"), SP, Wd("domain"), SP, Wd("tld")>>
    ELSE IF IsWord(t, {"i'm"}) THEN <<[t EXCEPT !.w = "i", !.n = 1], SP, Wd("m")>>
    ELSE IF IsWord(t, {"i'd"}) THEN <<[t EXCEPT !.w = "i", !.n = 1], SP, Wd("d")>>
    ELSE IF IsWord(t, {"don't"}) THEN <<Wd("don"), SP, Wd("t")>>
    ELSE IF IsWord(t, {"follow-up"}) /\ ~keepHyphen
         THEN <<[t EXCEPT !.w = "follow", !.n = 6], SP, Wd("up")>>
    ELSE <<t>>
StripSymbols(s, keepHyphen) == Flatten([i \in 1..Len(s) |-> SymbolsToBlank(s[i], keepHyphen)])

QuickFollowUp == <<Cap("quick"), SP, Wd("follow-up")>>     \* "Quick follow-up"
QuickFollowUpTitle == <<Cap("quick"), SP, Cap("follow-up")>>   \* "Quick Follow-Up"

\* cleanSubjectCandidate
cleanSubjectCandidate(input) ==
    With(normalizeEmailIntentText(input), LAMBDA normalized :
    With(StripSymbols(ReplaceWords(input, CommandVerbs \cup MailWords \cup {"to"}, <<>>), TRUE),
         LAMBDA s1 :
    With(stripSelfReferences(Trim(CollapseWs(s1))), LAMBDA cleaned :
    With(IF normalized # <<>> THEN normalized ELSE cleaned, LAMBDA subjectSource :
    With(StripLead(stripSelfReferences(subjectSource), <<<<OneOf({"about"}), WS>>>>),
         LAMBDA s2 :
    IF subjectSource = <<>> THEN QuickFollowUp
    ELSE UpperFirst(Trim(SliceUnits(s2, SUBJECT_MAX))))))))

Fillers == << <<OneOf({"please"})>>,
              <<OneOf({"let"}), WS, OneOf({"me"}), WS, OneOf({"know"})>>,
              <<OneOf({"could"}), WS, OneOf({"you"})>>,
              <<OneOf({"can"}), WS, OneOf({"you"})>>,
              <<OneOf({"would"}), WS, OneOf({"you"})>>,
              <<OneOf({"open"}), WS, OneOf({"to"})>>,
              <<OneOf({"whether"})>> >>

\* `${schedule ? `${base} ${schedule}` : otherwise}`.slice(0, 72).trim()
SubjectTemplate(base, schedule, otherwise) ==
    Trim(SliceUnits(IF schedule # <<>> THEN base \o <<SP>> \o schedule ELSE otherwise,
                    SUBJECT_MAX))

\* the subject for an intent that names no activity
CompactSubject(normalizedIntent, fallbackSubject) ==
    With(StripSymbols(ReplaceAll(normalizedIntent, Fillers, <<>>), FALSE), LAMBDA s1 :
    With(JoinWith(SliceTo(SplitWords(Trim(CollapseWs(s1))), 8), <<SP>>), LAMBDA compact :
    Trim(SliceUnits(toTitleCase(IF compact # <<>> THEN compact
                                ELSE IF fallbackSubject # <<>> THEN fallbackSubject
                                ELSE QuickFollowUp), SUBJECT_MAX))))

\* buildProfessionalSubject
buildProfessionalSubject(intentText, fallbackSubject) ==
    With(normalizeIntentForDraft(intentText), LAMBDA normalizedIntent :
    With(extractScheduleParts(normalizedIntent), LAMBDA scheduleParts :
    With(formatScheduleLabel(scheduleParts), LAMBDA schedule :
    LET overnight == isOvernightTime(scheduleParts.time)
        wantsLunch == HasWord(normalizedIntent, {"lunch"})
        wantsCoffee == HasWord(normalizedIntent, {"coffee"})
        base == IF overnight THEN <<Cap("quick"), SP, Cap("chat")>>
                ELSE IF wantsLunch THEN <<Cap("lunch"), SP, Cap("chat")>>
                ELSE IF wantsCoffee THEN <<Cap("coffee"), SP, Cap("chat")>>
                ELSE <<Cap("chat")>>
    IN  IF wantsLunch \/ wantsCoffee
        THEN SubjectTemplate(base, schedule, base \o <<SP, Cap("follow-up")>>)
        ELSE IF HasWord(normalizedIntent, {"meeting"})
        THEN SubjectTemplate(<<Cap("meeting")>>, schedule, <<Cap("meeting"), SP, Cap("follow-up")>>)
        ELSE IF HasWord(normalizedIntent, {"call"})
        THEN SubjectTemplate(<<Cap("call")>>, schedule, <<Cap("call"), SP, Cap("follow-up")>>)
        ELSE IF HasWord(normalizedIntent, {"chat"})
        THEN SubjectTemplate(<<Cap("chat")>>, schedule,
                             <<Cap("quick"), SP, Cap("chat"), SP, Cap("follow-up")>>)
        ELSE CompactSubject(normalizedIntent, fallbackSubject))))

(***************************************************************************)
(* Bodies.                                                                 *)
(***************************************************************************)
YourName == Tok("o", "[your name]", 11, FALSE)      \* "[Your Name]"
FirstPerson == {"i", "i'm", "i'd", "i'll", "me", "my"}

\* buildProfessionalFallbackBody
buildProfessionalFallbackBody(intentText) ==
    With(normalizeIntentForDraft(intentText), LAMBDA normalizedIntent :
    With(extractScheduleParts(normalizedIntent), LAMBDA scheduleParts :
    With(formatScheduleClause(scheduleParts), LAMBDA scheduleClause :
    LET overnight == isOvernightTime(scheduleParts.time)
        wantsLunch == HasWord(normalizedIntent, {"lunch"})
        wantsCoffee == HasWord(normalizedIntent, {"coffee"})
        wantsCall == HasWord(normalizedIntent, {"call"})
        wantsMeeting == HasWord(normalizedIntent, {"meeting"})
        activity == IF overnight THEN (IF wantsCall THEN Wd("a brief call") ELSE Wd("a quick chat"))
                    ELSE IF wantsLunch THEN Wd("a lunch chat")
                    ELSE IF wantsCoffee THEN Wd("a coffee chat")
                    ELSE IF wantsMeeting THEN Wd("a meeting")
                    ELSE IF wantsCall THEN Wd("a brief call")
                    ELSE Wd("a quick chat")
        requestLine == <<Cap("i"), SP, Wd("wanted to ask whether you would be available for"),
                         SP, activity>>
                       \o (IF scheduleClause # <<>> THEN <<SP>> \o scheduleClause ELSE <<>>)
                       \o <<Pun(".")>>
        clarifierLine ==
            IF wantsLunch /\ overnight /\ scheduleParts.dayRaw # <<>>
            THEN <<Cap("if you meant"), SP>> \o LowerWord(scheduleParts.dayRaw)
                 \o <<SP, Wd("at"), SP>>
                 \o formatScheduleTime(scheduleParts.time.hour, "00", "pm")
                 \o <<SP, Wd("instead"), Pun(","), SP, Cap("i"), SP,
                      Wd("am also available then"), Pun(".")>>
                 \o <<NL(2)>>
            ELSE <<>>
        nextStepLine ==
            IF normalizedIntent # <<>>
            THEN <<Cap("please let"), SP, Wd("me"), SP,
                   Wd("know whether that time works for you"), Pun("."), SP, Cap("if not"),
                   Pun(","), SP, Cap("i"), SP,
                   Wd("would be happy to coordinate another time that is more convenient"),
                   Pun(".")>>
            ELSE <<Cap("please let"), SP, Wd("me"), SP,
                   Wd("know what time works best for you"), Pun(","), SP, Wd("and"), SP,
                   Cap("i"), SP, Wd("will coordinate accordingly"), Pun(".")>>
    IN  <<Cap("hello"), Pun(","), NL(2), Cap("i"), SP, Wd("hope this message finds you well"),
          Pun("."), NL(2)>>
        \o requestLine \o <<NL(2)>> \o clarifierLine \o nextStepLine
        \o <<NL(2), Cap("best"), SP, Wd("regards"), Pun(","), NL(2), YourName>>)))

\* replace(/\s+\n/g, "\n"): white space that ends in a line break, and has
\* something before that line break, becomes one line break
SquashBreaks(s) ==
    Flatten([i \in 1..Len(s) |->
        IF ~IsWs(s[i]) THEN <<s[i]>>
        ELSE IF i > 1 /\ IsWs(s[i - 1]) THEN <<>>
        ELSE LET run == SubSeq(s, i, RunEnd(s, i))
                 last == LastWhere(run, IsBreak)
             IN  IF last = 0 THEN run ELSE <<NL(1)>> \o SubSeq(run, last + 1, Len(run))])

RECURSIVE LinesFrom(_, _)
LinesFrom(s, i) ==
    LET j == FirstFrom(s, i, IsBreak)
    IN  IF j > Len(s) THEN <<SubSeq(s, i, Len(s))>>
        ELSE <<SubSeq(s, i, j - 1)>> \o [m \in 1..(s[j].n - 1) |-> <<>>] \o LinesFrom(s, j + 1)
\* split("\n")
Lines(s) == LinesFrom(s, 1)

\* the lines trimmed and capitalised, joined by "\n"
RebuildLines(s) ==
    LET lines == Lines(s)
        fixed == [i \in 1..Len(lines) |-> UpperFirst(Trim(lines[i]))]
    IN  JoinWith(fixed, <<NL(1)>>)

\* /\n\s*\n/
HasParagraphSpacing(s) ==
    \E i, j \in 1..Len(s) :
        /\ i <= j
        /\ IsBreak(s[i]) /\ IsBreak(s[j])
        /\ i # j \/ s[i].n >= 2
        /\ \A m \in i..j : IsWs(s[m])

HeOrThey == {"him", "her", "them"}
MailThem == << <<OneOf(MailWords), WS, OneOf(HeOrThey)>> >>
\* polishDraftBody
polishDraftBody(body, intentText, userMessage) ==
    With(fixCommonEmailTypos(body), LAMBDA s1 :
    With(ReplaceWords(ReplaceAll(s1, FirstPersonDown, <<Cap("i"), SP, Wd("would be happy")>>),
                      {"whatever"}, <<Wd("that")>>), LAMBDA s2 :
    With(Trim(SquashBreaks(DropWsBeforeMarks(s2))), LAMBDA fixedBody :
    With(RebuildLines(fixedBody), LAMBDA rebuilt :
    LET tooCasual == HasWord(rebuilt, {"idk", "lol", "bro", "whatever"})
        hasFormalGreeting == rebuilt # <<>> /\ IsWord(Head(rebuilt), {"hello", "dear"})
        hasFirstPerson == HasWord(rebuilt, FirstPerson)
        hasFormalClosing == HasWord(rebuilt, {"regards", "sincerely"})
        hasParagraphSpacing == HasParagraphSpacing(rebuilt)
        userAddressesRecipientAsPronoun == HasMatch(userMessage, MailThem)
        includesThirdPersonRecipientPronoun == HasWord(rebuilt, HeOrThey)
    IN  IF \/ tooCasual
           \/ ~hasFormalGreeting
           \/ ~hasFirstPerson
           \/ ~hasFormalClosing
           \/ ~hasParagraphSpacing
           \/ userAddressesRecipientAsPronoun /\ includesThirdPersonRecipientPronoun
        THEN buildProfessionalFallbackBody(intentText)
        ELSE rebuilt))))

(***************************************************************************)
(* Recipient, mailto link and the draft as a whole.                        *)
(***************************************************************************)
\* a field of the object the upstream model wrote: str is typeof field === "string"
NoField == [str |-> FALSE, text |-> <<>>]
Field(text) == [str |-> TRUE, text |-> text]
EmptyDraft == [to |-> NoField, subject |-> NoField, body |-> NoField]    \* {}

\* extractEmailAddresses: the addresses of the text in lower case
extractEmailAddresses(text) ==
    LET found == SelectSeq(text, LAMBDA t : t.k = "a" /\ ~t.cut)
    IN  [i \in 1..Len(found) |-> [found[i] EXCEPT !.up = FALSE]]

\* variant: an address of the draft comes before an address of the message
DraftAddressFirst(userMessage, draftTo) ==
    LET fromMessage == extractEmailAddresses(userMessage)
        fromDraft == IF draftTo.str THEN extractEmailAddresses(draftTo.text) ELSE <<>>
    IN  IF fromDraft # <<>> THEN <<fromDraft[1]>>
        ELSE IF fromMessage # <<>> THEN <<fromMessage[1]>>
        ELSE <<>>
\* resolveEmailRecipient.  The two hint patterns capture words of the text,
\* so whenever one of them names the owner the last test of the function
\* does too; it is that test which is modelled.
resolveEmailRecipient(userMessage, draftTo) ==
    LET fromMessage == extractEmailAddresses(userMessage)
        fromDraft == IF draftTo.str THEN extractEmailAddresses(draftTo.text) ELSE <<>>
    IN  IF fromMessage # <<>> THEN <<fromMessage[1]>>
        ELSE IF fromDraft # <<>> THEN <<fromDraft[1]>>
        ELSE IF (draftTo.str /\ mentionsProfileName(draftTo.text))
                \/ mentionsProfileName(userMessage)
             THEN ProfileEmail
        ELSE <<>>

HasLoneSurrogate(value) == \E i \in 1..Len(value) : IsLoneSurrogate(value[i])

\* one token percent-encoded: letters, digits and - _ . ~ stay, every other
\* UTF-8 byte becomes three characters
Escape(t, escapeQuotes) ==
    CASE t.k = "s" -> [t EXCEPT !.k = "%", !.n = 3 * t.n]
      [] t.k = "n" -> [t EXCEPT !.k = "%", !.n = 3 * t.n]
      [] t.k = "x" -> [t EXCEPT !.k = "%", !.n = 12]
      [] t.k = "a" -> [t EXCEPT !.k = "%", !.n = t.n + 2]
      [] t.k = "o" -> [t EXCEPT !.k = "%", !.n = t.n + 6]
      [] t.k = "p" -> IF t.w \in {".", "-", "_", "~"} THEN t
                      ELSE IF t.w \in {"!", "'", "(", ")", "*"} /\ ~escapeQuotes THEN t
                      ELSE [t EXCEPT !.k = "%", !.n = 3 * t.n]
      [] OTHER -> IF t.w \in {"i'm", "i'd", "i'll", "don't"} /\ escapeQuotes
                  THEN [t EXCEPT !.k = "%", !.n = t.n + 2] ELSE t

Threw == [threw |-> TRUE, text |-> <<>>]
\* encodeURIComponent: a URIError on a lone surrogate
encodeURIComponent(value) ==
    IF HasLoneSurrogate(value) THEN Threw
    ELSE [threw |-> FALSE, text |-> [i \in 1..Len(value) |-> Escape(value[i], FALSE)]]
\* encodeMailtoComponent: ! ' ( ) * escaped as well
encodeMailtoComponent(value) ==
    IF encodeURIComponent(value).threw THEN Threw
    ELSE [threw |-> FALSE, text |-> [i \in 1..Len(value) |-> Escape(value[i], TRUE)]]

\* replace(/\r?\n/g, "\r\n")
CrLf(s) == [i \in 1..Len(s) |-> IF IsBreak(s[i]) THEN [s[i] EXCEPT !.w = "\r\n"] ELSE s[i]]

Mailto == <<Wd("mailto"), Pun(":")>>
\* href.startsWith("mailto:")
StartsWithMailto(href) == Len(href) >= 2 /\ SubSeq(href, 1, 2) = Mailto

\* /\bemail\s+\w+/i
HasEmailThenWord(s) ==
    \E i \in 1..Len(s) :
        /\ IsWord(s[i], {"email"})
        /\ i < Len(s) /\ IsWs(s[i + 1])
        /\ LET rest == TrimStart(SubSeq(s, i + 1, Len(s)))
           IN  rest # <<>> /\ Head(rest).k \in {"w", "d", "a"}

RECURSIVE DropTrailingMarks(_)
\* replace(/[!?]+$/g, "")
DropTrailingMarks(s) ==
    IF s # <<>> /\ s[Len(s)].k = "p" /\ s[Len(s)].w \in {"!", "?"}
    THEN DropTrailingMarks(SubSeq(s, 1, Len(s) - 1)) ELSE s

DraftThrew == [threw |-> TRUE, to |-> <<>>, subject |-> <<>>, body |-> <<>>, href |-> <<>>]

\* lines 565-568 of sanitizeEmailDraft: the subject without names, verbs,
\* recipient, leading preposition and closing marks
TidySubject(subject, userMessage) ==
    With(Trim(StripLead(stripSelfReferences(subject),
                        <<<<OneOf(CommandVerbs \cup MailWords), WS>>>>)), LAMBDA s1 :
    With(Trim(StripLead(stripLeadingRecipient(s1), <<<<OneOf(Prepositions), WS>>>>)), LAMBDA s2 :
    With(Trim(DropTrailingMarks(fixCommonEmailTypos(s2))), LAMBDA s3 :
    IF s3 = <<>> THEN cleanSubjectCandidate(userMessage) ELSE s3)))

\* lines 582-592 of sanitizeEmailDraft
shouldRewriteBody(body) ==
    LET bodyLines == Lines(body)
        commandLineFound == \E i \in 1..Len(bodyLines) : looksLikeCommandText(Trim(bodyLines[i]))
        referencesProfileName == HasPhrase(body, "jerry", "xiao")
    IN  \/ commandLineFound
        \/ HasEmailThenWord(body)
        \/ ~HasWord(body, FirstPerson) /\ HasWord(body, MailWords)
        \/ referencesProfileName

\* lines 596-605 of sanitizeEmailDraft
DraftOf(recipient, subject, finalizedBody) ==
    With(encodeMailtoComponent(subject), LAMBDA encSubject :
    With(encodeMailtoComponent(CrLf(finalizedBody)), LAMBDA encBody :
    With(encodeURIComponent(recipient), LAMBDA encTo :
    IF encSubject.threw \/ encBody.threw \/ encTo.threw THEN DraftThrew
    ELSE [threw |-> FALSE,
          to |-> recipient,
          subject |-> subject,
          body |-> finalizedBody,
          href |-> Mailto \o encTo.text \o <<Pun("?"), Wd("subject"), Pun("=")>>
                   \o encSubject.text \o <<Pun("&"), Wd("body"), Pun("=")>> \o encBody.text])))

\* sanitizeEmailDraft
sanitizeEmailDraft(raw, userMessage) ==
    With(resolveEmailRecipient(userMessage, raw.to), LAMBDA recipient :
    With(normalizeEmailIntentText(userMessage), LAMBDA normalizedMessage :
    With(normalizeIntentForDraft(IF normalizedMessage # <<>> THEN normalizedMessage
                                 ELSE Trim(userMessage)), LAMBDA intentText :
    With(IF raw.subject.str /\ Trim(raw.subject.text) # <<>>
         THEN SliceUnits(Trim(raw.subject.text), RAW_SUBJECT_MAX)
         ELSE cleanSubjectCandidate(userMessage), LAMBDA subject0 :
    With(TidySubject(subject0, userMessage), LAMBDA subject4 :
    With(IF \/ looksLikeCommandText(subject4)
            \/ HasWord(subject4, {"email"}) /\ Units(subject4) < 18
            \/ hasObviousSubjectIssues(subject4)
         THEN buildProfessionalSubject(IF intentText # <<>> THEN intentText ELSE userMessage,
                                       cleanSubjectCandidate(userMessage))
         ELSE subject4, LAMBDA subject5 :
    With(Trim(SliceUnits(toTitleCase(subject5), SUBJECT_MAX)), LAMBDA subject6 :
    With(IF raw.body.str /\ Trim(raw.body.text) # <<>>
         THEN SliceUnits(Trim(raw.body.text), BODY_MAX)
         ELSE buildProfessionalFallbackBody(intentText), LAMBDA body :
    With(IF shouldRewriteBody(body) THEN buildProfessionalFallbackBody(intentText) ELSE body,
         LAMBDA draftBody :
    With(polishDraftBody(draftBody, intentText, userMessage), LAMBDA finalizedBody :
    DraftOf(recipient, IF subject6 = <<>> THEN QuickFollowUpTitle ELSE subject6,
            finalizedBody)))))))))))

(***************************************************************************)
(* Requests.                                                               *)
(***************************************************************************)
T_blank == <<SP>>
T_hi == <<Wd("hi")>>
T_ok == <<Cap("ok")>>
T_age == <<Wd("how"), SP, Wd("old"), SP, Wd("is"), SP, Wd("he")>>
T_mail == <<Wd("email"), SP, Wd("jerry"), SP, Wd("about"), SP, Wd("lunch"), SP,
            Wd("tomorrow"), SP, Num("3am")>>
\* "email Pat@Example.com about lunch"
T_write == <<Wd("email"), SP, [Addr("pat@example.com") EXCEPT !.up = TRUE], SP, Wd("about"), SP,
             Wd("lunch")>>
\* 70 code units, a blank and an emoji: slice(0, 72) cuts the emoji in two
T_party == <<Cap("reminder"), SP, Wd("that"), SP, Wd("the"), SP, Wd("whole"), SP,
             Wd("product"), SP, Wd("team"), SP, Wd("celebrates"), SP, Wd("the"), SP,
             Wd("launch"), SP, Wd("this"), SP, Cap("friday"), SP, Astral>>

\* an entry of body.messages
Msg(role, content) == [role |-> role, str |-> TRUE, content |-> content]
NoContent(role) == [role |-> role, str |-> FALSE, content |-> <<>>]
\* a request body: json is whether request.json() parses it
Body(query, messages) == [json |-> TRUE, query |-> query, array |-> TRUE, messages |-> messages]
QueryOnly(query) == [json |-> TRUE, query |-> query, array |-> FALSE, messages |-> <<>>]
NotJson == [json |-> FALSE, query |-> NoField, array |-> FALSE, messages |-> <<>>]

Bodies ==
    { QueryOnly(Field(T_blank)),
      QueryOnly(NoField),
      NotJson,
      Body(Field(T_age), <<>>),
      Body(NoField, <<Msg("user", T_age)>>),
      Body(NoField, <<Msg("user", T_party)>>),
      Body(NoField, <<Msg("user", T_blank)>>),
      Body(NoField, <<Msg("user", T_write)>>),
      Body(NoField, <<Msg("user", T_hi), Msg("assistant", T_ok)>>),
      Body(NoField, <<Msg("user", T_hi), Msg("assistant", T_blank)>>),
      Body(Field(T_mail), <<Msg("system", T_ok), NoContent("user")>>),
      Body(NoField, <<Msg("user", T_hi), Msg("assistant", T_ok), Msg("user", T_mail)>>),
      Body(NoField, <<Msg("user", T_age), Msg("assistant", T_ok), Msg("tool", T_ok)>>) }
\* the bodies a client sends
Requests == {b \in Bodies : Len(b.messages) <= MaxMessages}

\* variant: only the messages of the user are kept
UserMessagesOnly(body) ==
    IF ~body.array THEN <<>>
    ELSE LET kept == SelectSeq(body.messages, LAMBDA m : m.role = "user" /\ m.str)
         IN  [k \in 1..Len(kept) |-> [role |-> "user", content |-> kept[k].content]]
\* variant: messages without text are kept
KeepEmptyMessages(body) ==
    IF ~body.array THEN <<>>
    ELSE LET kept == SelectSeq(body.messages, LAMBDA m : m.role \in {"user", "assistant"})
         IN  [k \in 1..Len(kept) |-> [role |-> kept[k].role, content |-> kept[k].content]]

\* normalizeConversation
normalizeConversation(body) ==
    IF ~body.array THEN <<>>
    ELSE LET roles == SelectSeq(body.messages, LAMBDA m : m.role \in {"user", "assistant"})
             trimmed == [i \in 1..Len(roles) |->
                            [role |-> roles[i].role,
                             content |-> IF roles[i].str THEN Trim(roles[i].content) ELSE <<>>]]
         IN  SliceLast(SelectSeq(trimmed, LAMBDA m : m.content # <<>>),
                       MAX_CONVERSATION_MESSAGES)

\* variant: only the word "age" counts
AsksAgeWord(userMessage) == HasWord(userMessage, {"age"})

\* /\b(age|how old|old is)\b/i
AsksAge(userMessage) ==
    \/ HasWord(userMessage, {"age"})
    \/ HasPhrase(userMessage, "how", "old")
    \/ HasPhrase(userMessage, "old", "is")
\* buildAgeAnswer: the text it gives for the date of birth of the profile
AgeAnswer == <<Cap("jerry"), SP, Cap("xiao"), SP, Wd("is"), SP, Num("n"), SP, Wd("years old")>>
\* buildAgeAnswer: <<>> for null; profile.dob is a date parseDob reads
buildAgeAnswer(userMessage) == IF AsksAge(userMessage) THEN AgeAnswer ELSE <<>>

(***************************************************************************)
(* Texts of the error responses.                                           *)
(***************************************************************************)
MissingQuery == <<Cap("missing"), SP, Wd("query"), Pun(".")>>
KeyNotConfigured == <<Cap("openrouter_api_key"), SP, Wd("is not configured"), Pun(".")>>
LastMustBeUser == <<Cap("last"), SP, Wd("message must be from the user"), Pun(".")>>
RequestFailed == <<Cap("openrouter"), SP, Wd("request"), SP, Wd("failed"), Pun(".")>>
RequestFailedWith == <<Cap("openrouter"), SP, Wd("request"), SP, Wd("failed"), Pun(":"), SP>>
EmptyContent == <<Cap("openrouter"), SP, Wd("returned empty content"), Pun(".")>>
FetchFailed == <<Wd("fetch"), SP, Wd("failed")>>                  \* fetch rejected
NotJsonText == <<Cap("unexpected"), SP, Wd("token")>>            \* response.json() threw
UriMalformed == <<Cap("uri"), SP, Wd("malformed")>>              \* encodeURIComponent threw

(***************************************************************************)
(* Replies of the upstream completion API.                                 *)
(***************************************************************************)
\* a JSON object in a model's output, named by what it holds
Obj(w) == Tok("j", w, 2, FALSE)
GoodDraft == [to |-> Field(<<Addr("sam@example.com")>>),
              subject |-> Field(<<Cap("lunch"), SP, Cap("plans"), SP, Wd("this"), SP, Cap("week")>>),
              body |-> Field(<<Cap("hello"), Pun(","), NL(2), Cap("i"), SP, Wd("would like to meet"),
                               Pun("."), NL(2), Cap("best"), SP, Wd("regards"), Pun(","), NL(2),
                               YourName>>)]
\* a subject that ends in a lone surrogate ("\ud83c" in the JSON text)
SurrogateDraft == [to |-> NoField,
                   subject |-> Field(<<Cap("lunch"), SP, Cap("plans"), SP, Wd("this"), SP,
                                       Cap("week"), SP, [Astral EXCEPT !.n = 1, !.cut = TRUE]>>),
                   body |-> NoField]
\* a body of 2000 code units that polishDraftBody accepts: a greeting, a
\* sentence of "I pls" and 1971 letters, a closing
LongDraft == [to |-> NoField,
              subject |-> Field(<<Cap("lunch"), SP, Cap("plans"), SP, Wd("this"), SP, Cap("week")>>),
              body |-> Field(<<Cap("hello"), Pun(","), NL(2), Cap("i"), SP, Wd("pls"), SP,
                               Tok("w", "lorem", 1971, FALSE), Pun("."), NL(2), Cap("best"), SP,
                               Wd("regards")>>)]
NoJson == [ok |-> FALSE, tool |-> "", draft |-> EmptyDraft]
\* JSON.parse of one object
JsonParse(t) ==
    CASE t.w = "tool:compose_email_draft" ->
            [ok |-> TRUE, tool |-> "compose_email_draft", draft |-> EmptyDraft]
      [] t.w = "tool:get_profile_context" ->
            [ok |-> TRUE, tool |-> "get_profile_context", draft |-> EmptyDraft]
      [] t.w = "tool:search" -> [ok |-> TRUE, tool |-> "search", draft |-> EmptyDraft]
      [] t.w = "empty" -> [ok |-> TRUE, tool |-> "", draft |-> EmptyDraft]
      [] t.w = "draft" -> [ok |-> TRUE, tool |-> "", draft |-> GoodDraft]
      [] t.w = "surrogate" -> [ok |-> TRUE, tool |-> "", draft |-> SurrogateDraft]
      [] t.w = "long" -> [ok |-> TRUE, tool |-> "", draft |-> LongDraft]
      [] OTHER -> NoJson

IsOpen(t) == t.k = "j" \/ (t.k = "p" /\ t.w = "{")
IsClose(t) == t.k = "j" \/ (t.k = "p" /\ t.w = "}")
\* extractJsonObject: from the first "{" to the last "}", <<>> for null
extractJsonObject(text) ==
    LET candidate == Trim(text)
        firstBrace == FirstFrom(candidate, 1, IsOpen)
        lastBrace == LastWhere(candidate, IsClose)
    IN  IF firstBrace > Len(candidate) \/ lastBrace = 0 \/ lastBrace < firstBrace
           \/ (lastBrace = firstBrace /\ candidate[firstBrace].k # "j")
        THEN <<>>
        ELSE SubSeq(candidate, firstBrace, lastBrace)
\* JSON.parse(jsonText): ok is FALSE when it throws
ParseObject(jsonText) == IF Len(jsonText) = 1 THEN JsonParse(jsonText[1]) ELSE NoJson

\* parseToolChoice: "" for null
parseToolChoice(content) ==
    LET jsonText == extractJsonObject(content)
        parsed == ParseObject(jsonText)
    IN  IF jsonText = <<>> \/ ~parsed.ok THEN ""
        ELSE IF parsed.tool \in {"compose_email_draft", "get_profile_context"} THEN parsed.tool
        ELSE ""

\* data.error: code 0 stands for no numeric code, provider "" for no provider_name
NoError == [present |-> FALSE, code |-> 0, message |-> NoField, provider |-> ""]
Err(code, message, provider) ==
    [present |-> TRUE, code |-> code, message |-> message, provider |-> provider]
\* choices[0].message.content
NoChoice == NoField
\* a reply: fetch rejected / the body is not JSON / a JSON body
NoReply == [kind |-> "none", status |-> 0, error |-> NoError, content |-> NoChoice, model |-> ""]
Rejected == [kind |-> "throw", status |-> 0, error |-> NoError, content |-> NoChoice, model |-> ""]
Unparseable(status) ==
    [kind |-> "malformed", status |-> status, error |-> NoError, content |-> NoChoice, model |-> ""]
Reply(status, error, content, model) ==
    [kind |-> "json", status |-> status, error |-> error, content |-> content, model |-> model]
\* response.ok
Ok(r) == r.status >= 200 /\ r.status <= 299

Says(text) == Reply(200, NoError, Field(text), "provider/model")
Overloaded == Reply(503, Err(503, Field(<<Cap("provider"), SP, Wd("overloaded")>>), "acme"),
                    NoChoice, "")
BadRequest == Reply(400, Err(400, Field(<<Cap("invalid"), SP, Wd("request")>>), ""), NoChoice, "")
\* HTTP 200 whose body carries an error without a numeric code
ErrorIn200 == Reply(200, Err(0, Field(<<Cap("model"), SP, Wd("not"), SP, Wd("found")>>), ""),
                    NoChoice, "")
\* HTTP 200 whose error object only says that the provider is rate limited
RateLimitedIn400 == Reply(400, Err(0, Field(<<Cap("rate"), SP, Wd("limit"), SP, Wd("exceeded")>>),
                                   ""), NoChoice, "")
Unauthorized == Reply(401, NoError, NoChoice, "")
\* HTTP 200 whose body carries both an error and content
ErrorBeside(content) ==
    Reply(200, Err(0, Field(<<Cap("upstream"), SP, Wd("failed")>>), ""), Field(content),
          "provider/model")

RouterReplies ==
    { Rejected, Unparseable(200), Overloaded, ErrorIn200,
      Reply(200, NoError, NoChoice, ""),
      Says(<<>>), Says(T_blank), Says(<<Cap("profile")>>),
      Says(<<Pun("{"), Wd("tool")>>),
      Says(<<Obj("tool:search")>>),
      Says(<<Obj("tool:get_profile_context")>>),
      Says(<<Cap("sure"), Pun(":"), SP, Obj("tool:compose_email_draft")>>),
      Reply(200, NoError, Field(<<Obj("tool:compose_email_draft")>>), ""),
      Reply(200, Err(0, NoField, ""), Field(<<Obj("tool:compose_email_draft")>>), ""),
      Reply(500, NoError, Field(<<Obj("tool:compose_email_draft")>>), "") }
EmailReplies ==
    { Rejected, Unparseable(200), Overloaded, ErrorIn200,
      Says(<<>>), Says(<<Cap("sorry")>>), Says(<<Pun("{"), Wd("to"), Pun("}")>>),
      Says(<<Obj("surrogate")>>), Says(<<Obj("empty")>>), Says(<<Obj("draft")>>),
      Says(<<Obj("long")>>), ErrorBeside(<<Obj("draft")>>) }
AnswerReplies ==
    { Rejected, Unparseable(200), Unparseable(502), Overloaded, BadRequest, ErrorIn200,
      RateLimitedIn400, Unauthorized,
      Reply(200, NoError, NoChoice, ""), Says(T_blank),
      Says(<<Cap("he"), SP, Wd("builds"), SP, Wd("software"), Pun(".")>>),
      Reply(200, NoError, Field(<<SP, Cap("yes"), Pun("."), SP>>), ""),
      ErrorBeside(<<Cap("yes"), Pun(".")>>) }

\* parseAnswer
parseAnswer(data) == IF data.content.str THEN Trim(data.content.text) ELSE <<>>

\* formatOpenRouterErrorMessage
formatOpenRouterErrorMessage(data, fallback) ==
    LET message == IF data.error.present /\ data.error.message.str
                   THEN data.error.message.text ELSE fallback
    IN  IF data.error.present /\ data.error.provider # ""
        THEN message \o <<SP, Pun("("), Wd("provider"), Pun(":"), SP, Wd(data.error.provider),
                          Pun(")")>>
        ELSE message

\* variant: every status is retried
AnyStatusRetriable(status) == status = status

\* isRetriableStatus
isRetriableStatus(status) == status \in {429, 502, 503, 504, 529}

TransientPhrases ==
    << <<OneOf({"provider"}), WS, OneOf({"returned"}), WS, OneOf({"error"})>>,
       <<OneOf({"provider"}), WS, OneOf({"overloaded"})>>,
       <<OneOf({"rate"}), WS, OneOf({"limit"})>>,
       <<OneOf({"temporarily"}), WS, OneOf({"unavailable"})>> >>
\* isRetriableProviderError
isRetriableProviderError(data) ==
    \/ data.error.present /\ data.error.code # 0 /\ isRetriableStatus(data.error.code)
    \/ /\ data.error.present /\ data.error.message.str
       /\ HasMatch(data.error.message.text, TransientPhrases)

(***************************************************************************)
(* The model pool.                                                         *)
(***************************************************************************)
\* an environment variable that holds a number: process.env.X
Unset == [set |-> FALSE, n |-> 0]
Val(n) == [set |-> TRUE, n |-> n]
\* process.env: OPENROUTER_API_KEY, OPENROUTER_MODELS (split at ","),
\* OPENROUTER_DYNAMIC_MODELS, OPENROUTER_MODEL_POOL_SIZE, OPENROUTER_MODELS_REFRESH_MS
Env(apiKey, models, dynamic, poolSize, refreshMs) ==
    [apiKey |-> apiKey, models |-> models, dynamic |-> dynamic, poolSize |-> poolSize,
     refreshMs |-> refreshMs]
Envs ==
    { Env(TRUE, <<>>, "", Unset, Unset),
      Env(FALSE, <<>>, "", Unset, Unset),
      Env(TRUE, <<"acme/alpha", " ", "acme/beta", "acme/alpha", "acme/gamma", "acme/delta">>,
          "false", Unset, Val(0)),
      Env(TRUE, <<>>, "false", Unset, Unset),
      Env(TRUE, <<"acme/alpha">>, "true", Val(1), Val(2 * DEFAULT_REFRESH_MS)) }

\* model.trim() of one entry of the list
TrimEntry(model) == IF model = " " THEN "" ELSE model
\* parseEnvModelList
parseEnvModelList(value) ==
    SelectSeq([i \in 1..Len(value) |-> TrimEntry(value[i])], LAMBDA model : model # "")
\* parseEnvPositiveInt
parseEnvPositiveInt(value, fallback) ==
    IF ~value.set THEN fallback ELSE IF value.n > 0 THEN value.n ELSE fallback

\* variant: nothing is removed
KeepAll(models) == models
\* uniqModels: [...new Set(models)] keeps the first occurrence of each
uniqModels(models) ==
    LET first == {i \in 1..Len(models) : \A j \in 1..(i - 1) : models[j] # models[i]}
        Rank(i) == Cardinality({j \in first : j <= i})
    IN  [k \in 1..Cardinality(first) |-> models[CHOOSE i \in first : Rank(i) = k]]

\* an entry of the model listing; id "" stands for a missing id
Listed(id, costsAreZero, input, output, contextLength, created) ==
    [id |-> id, costsAreZero |-> costsAreZero, input |-> input, output |-> output,
     context_length |-> contextLength, created |-> created]
NoModalities == [set |-> FALSE, list |-> {}]
Modalities(S) == [set |-> TRUE, list |-> S]
\* model.id.endsWith(":free")
EndsWithFree(id) == id \in {"openai/gpt-oss-20b:free", "qwen/qwen3-8b:free", "acme/vision:free"}
\* isFreeModel
isFreeModel(model) == model.costsAreZero \/ EndsWithFree(model.id)
\* supportsTextIO
supportsTextIO(model) ==
    IF ~model.input.set /\ ~model.output.set THEN TRUE
    ELSE /\ (~model.input.set \/ "text" \in model.input.list)
         /\ (~model.output.set \/ "text" \in model.output.list)
\* Math.log2(Math.max(1, contextLength / 8192 + 1)) * 4 for the lengths of the listings
ContextScore(contextLength) ==
    CASE contextLength = 0 -> 0
      [] contextLength = 8192 -> 4
      [] contextLength = 24576 -> 8
      [] OTHER -> 12
\* the points of getSotaScore that come from the name of a model
NameScore(id) ==
    CASE id = "openai/gpt-oss-20b:free" -> 30 + 4
      [] id = "qwen/qwen3-8b:free" -> 24 + 4
      [] id = "acme/vision:free" -> 4
      [] id = "mistralai/mistral-7b" -> 12
      [] OTHER -> 0
\* getSotaScore
getSotaScore(model) ==
    NameScore(model.id) + Min(12, ContextScore(model.context_length))
        + Min(8, model.created \div 1000000000)
\* Array.prototype.sort((a, b) => getSotaScore(b) - getSotaScore(a)): stable
SortByScore(list) ==
    LET Before(i, j) == \/ getSotaScore(list[i]) > getSotaScore(list[j])
                        \/ getSotaScore(list[i]) = getSotaScore(list[j]) /\ i < j
        Place(i) == 1 + Cardinality({j \in 1..Len(list) : Before(j, i)})
    IN  [k \in 1..Len(list) |-> list[CHOOSE i \in 1..Len(list) : Place(i) = k]]

\* a reply of the listing endpoint
ListingRejected == [kind |-> "throw", status |-> 0, data |-> <<>>]
ListingReply(kind, status, data) == [kind |-> kind, status |-> status, data |-> data]
Catalogue ==
    << Listed("acme/paid", FALSE, NoModalities, NoModalities, 57344, 2000000000),
       Listed("", TRUE, NoModalities, NoModalities, 0, 0),
       Listed("qwen/qwen3-8b:free", FALSE, Modalities({"text"}), Modalities({"text"}), 8192, 0),
       Listed("acme/vision:free", TRUE, Modalities({"image"}), Modalities({"text"}), 0, 0),
       Listed("mistralai/mistral-7b", TRUE, NoModalities, Modalities({"text"}), 24576,
              1000000000),
       Listed("openai/gpt-oss-20b:free", TRUE, NoModalities, NoModalities, 0, 0) >>
ListingReplies ==
    { ListingRejected, ListingReply("json", 500, <<>>), ListingReply("malformed", 200, <<>>),
      ListingReply("json", 200, <<>>), ListingReply("json", 200, Catalogue) }

\* fetchFreeModels: threw is TRUE when it rejects
fetchFreeModels(reply, environment) ==
    IF reply.kind = "throw" \/ reply.status < 200 \/ reply.status > 299 \/ reply.kind # "json"
    THEN [threw |-> TRUE, models |-> <<>>]
    ELSE LET modelPoolSize == parseEnvPositiveInt(environment.poolSize, DEFAULT_MODEL_POOL_SIZE)
             withId == SelectSeq(reply.data, LAMBDA model : model.id # "")
             free == SelectSeq(withId, isFreeModel)
             text == SelectSeq(free, supportsTextIO)
             top == SliceTo(SortByScore(text), modelPoolSize)
         IN  [threw |-> FALSE, models |-> [i \in 1..Len(top) |-> top[i].id]]

\* modelPoolCache: set is FALSE for null
NoCache == [set |-> FALSE, models |-> <<>>, expiresAt |-> 0]
\* variant: the cursor stays where it is
RotateInPlace(models, cursor) ==
    IF Len(models) <= 1 THEN [order |-> models, cursor |-> cursor]
    ELSE LET start == cursor % Len(models)
         IN  [order |-> SubSeq(models, start + 1, Len(models)) \o SubSeq(models, 1, start),
              cursor |-> cursor]
\* variant: the cursor is advanced and never reduced
RotateWithoutWrap(models, cursor) ==
    IF Len(models) <= 1 THEN [order |-> models, cursor |-> cursor]
    ELSE LET start == cursor % Len(models)
         IN  [order |-> SubSeq(models, start + 1, Len(models)) \o SubSeq(models, 1, start),
              cursor |-> cursor + 1]
\* rotateModelOrder: the order and the cursor it leaves
rotateModelOrder(models, cursor) ==
    IF Len(models) <= 1 THEN [order |-> models, cursor |-> cursor]
    ELSE LET start == cursor % Len(models)
         IN  [order |-> SubSeq(models, start + 1, Len(models)) \o SubSeq(models, 1, start),
              cursor |-> (cursor + 1) % Len(models)]
\* variant: a cache that is set answers, expired or not
CacheSet(cache, time) == cache.set /\ Len(cache.models) > 0
\* getRotatingModelOrder, line 1119: the cache answers
CacheFresh(cache, time) == cache.set /\ cache.expiresAt > time /\ Len(cache.models) > 0
\* variant: the pool without the hard-coded fallback
BuildPoolWithoutFallback(environment, discoveredModels, time) ==
    LET refreshMs == parseEnvPositiveInt(environment.refreshMs, DEFAULT_REFRESH_MS)
        envModels == parseEnvModelList(environment.models)
        models == SelectSeq(uniqModels(envModels \o discoveredModels),
                            LAMBDA model : model # "")
    IN  [set |-> TRUE, models |-> models, expiresAt |-> time + refreshMs]
\* getRotatingModelOrder, lines 1123-1141: the pool it builds and caches
BuildPool(environment, discoveredModels, time) ==
    LET refreshMs == parseEnvPositiveInt(environment.refreshMs, DEFAULT_REFRESH_MS)
        envModels == parseEnvModelList(environment.models)
        models == SelectSeq(uniqModels(envModels \o discoveredModels \o DEFAULT_FALLBACK_MODELS),
                            LAMBDA model : model # "")
    IN  [set |-> TRUE, models |-> models, expiresAt |-> time + refreshMs]
includeDynamic(environment) == environment.dynamic # "false"

(***************************************************************************)
(* The request handler, POST /api/ai-search.  One request is handled at a  *)
(* time; an action is the code between two awaits.                         *)
(***************************************************************************)
VARIABLES
    env,                  \* process.env
    modelPoolCache,       \* module state, line 82
    rotationCursor,       \* module state, line 83
    now,                  \* Date.now()
    pc,                   \* where the handler waits
    requestBody,          \* the body of the request
    conversationMessages, \* POST, line 1174
    latestUserMessage,    \* POST, line 1185
    stage,                \* which call of getRotatingModelOrder is running
    poolNow,              \* `now` of the running getRotatingModelOrder
    orderedModels,        \* the order the running loop uses
    modelIndex,           \* i, the loop index of decideAssistantTool / buildEmailToolResponse
    selectedTool,         \* POST, line 1198
    attempt,              \* POST, line 1227
    lastErrorMessage,     \* POST, line 1224
    lastStatus,           \* POST, line 1225
    inflight,             \* body of the completion call that is waiting
    calls,                \* upstream calls this request has made, by kind
    lastReply,            \* the reply to the completion call answered last
    response,             \* what the handler returned
    lastListing,          \* the reply to the listing call answered last
    lastPrimary           \* the primary model of the first answering call made last

vars == <<env, modelPoolCache, rotationCursor, now, pc, requestBody, conversationMessages,
          latestUserMessage, stage, poolNow, orderedModels, modelIndex, selectedTool,
          attempt, lastErrorMessage, lastStatus, inflight, calls, lastReply, response,
          lastListing, lastPrimary>>

(***************************************************************************)
(* State of the other components: concurrent callers of                    *)
(* getRotatingModelOrder, POST /api/chat, the chat client and the LinkedIn *)
(* snapshot cache.  The request handler above leaves them alone.           *)
(***************************************************************************)
VARIABLES
    poolCalls,            \* the calls of getRotatingModelOrder made by concurrent requests
    currentModelIndex,    \* chat/route.ts, module state, line 21
    chatPc,               \* where POST /api/chat waits
    chatAttempt,          \* chat/route.ts, `attempt`, line 84
    chatTried,            \* the indices of FREE_MODELS this request has called, in order
    chatLastError,        \* chat/route.ts, `lastError`, line 82
    chatResponse,         \* what POST /api/chat returned
    storedMessages,       \* chat client: messagesRef and the stored history
    pendingRequest,       \* chat client: the stored pending request
    isSending,            \* chat client: React state
    activeRequests,       \* chat client: module state, line 102
    fetches,              \* chat client: the calls of /api/ai-search that have not returned
    mailOpened,           \* chat client: requests whose mail link was opened
    requestsSent,         \* chat client: number of requests sendMessage has started
    cleared,              \* chat client: requests that were in flight when clearChat ran
    settled,              \* chat client: requests whose call has returned
    cacheEntry,           \* LinkedIn snapshot: module state, line 80
    inFlight,             \* LinkedIn snapshot: module state, line 81
    loads,                \* LinkedIn snapshot: the loads started, with their progress
    snapshotCalls         \* LinkedIn snapshot: the calls of getLinkedInSnapshot

poolVars == <<poolCalls>>
chatVars == <<currentModelIndex, chatPc, chatAttempt, chatTried, chatLastError, chatResponse>>
clientVars == <<storedMessages, pendingRequest, isSending, activeRequests, fetches, mailOpened,
                requestsSent, cleared, settled>>
snapshotVars == <<cacheEntry, inFlight, loads, snapshotCalls>>
\* the state of one request of POST /api/ai-search
requestVars == <<pc, requestBody, conversationMessages, latestUserMessage, stage, poolNow,
                 orderedModels, modelIndex, selectedTool, attempt, lastErrorMessage,
                 lastStatus, inflight, calls, lastReply, response, lastListing, lastPrimary>>
allVars == <<vars, poolVars, chatVars, clientVars, snapshotVars>>
otherVars == <<poolVars, chatVars, clientVars, snapshotVars>>

\* the number of requests that consult the model pool at the same time
MaxWorkers == 2
Workers == 1..MaxWorkers
\* a request that has not called getRotatingModelOrder
NoPoolCall == [at |-> "idle", began |-> 0, pool |-> <<>>, order |-> <<>>]
PoolInit == poolCalls = [w \in Workers |-> NoPoolCall]

NoChatResponse == [status |-> 0, model |-> "", error |-> ""]
\* chat/route.ts, line 21, and no request yet
ChatInit ==
    /\ currentModelIndex = 0
    /\ chatPc = "idle"
    /\ chatAttempt = 0
    /\ chatTried = <<>>
    /\ chatLastError = ""
    /\ chatResponse = NoChatResponse

\* readPendingRequest() returning null
NoPending == [set |-> FALSE, requestId |-> 0, pendingMessageId |-> 0]
\* the chat client after its first render, with nothing stored
ClientInit ==
    /\ storedMessages = <<>>
    /\ pendingRequest = NoPending
    /\ isSending = FALSE
    /\ activeRequests = {}
    /\ fetches = {}
    /\ mailOpened = {}
    /\ requestsSent = 0
    /\ cleared = {}
    /\ settled = {}

\* part_002, lines 80-81: cacheEntry = null, inFlight = null
NoEntry == [set |-> FALSE, data |-> "", expiresAt |-> 0]
SnapshotInit ==
    /\ cacheEntry = NoEntry
    /\ inFlight = 0
    /\ loads = <<>>
    /\ snapshotCalls = <<>>


NoAction == [type |-> "", href |-> <<>>, to |-> <<>>, subject |-> <<>>, body |-> <<>>]
NoResponse ==
    [kind |-> "none", status |-> 0, error |-> <<>>, answer |-> <<>>, model |-> "",
     rotated |-> FALSE, poolSize |-> 0, tool |-> "", action |-> NoAction]
\* NextResponse.json({ error }, { status })
ErrorResponse(message, status) ==
    [NoResponse EXCEPT !.kind = "error", !.status = status, !.error = message]
\* NextResponse.json({ answer, model, rotated, poolSize, tool, action? }): status 200
AnswerResponse(answer, model, rotated, poolSize, tool, action) ==
    [kind |-> "answer", status |-> 200, error |-> <<>>, answer |-> answer, model |-> model,
     rotated |-> rotated, poolSize |-> poolSize, tool |-> tool, action |-> action]

NoCalls == [listing |-> 0, router |-> 0, email |-> 0, answer |-> 0]
NoInflight == [model |-> "", models |-> <<>>]
Called(kind) == [calls EXCEPT ![kind] = @ + 1]

NoListing == [kind |-> "none", status |-> 0, data |-> <<>>]
\* no answering call made
NoPrimary == [set |-> FALSE, model |-> "", cache |-> NoCache]
Init ==
    /\ env \in Envs
    /\ modelPoolCache = NoCache
    /\ rotationCursor = 0
    /\ now = 0
    /\ pc = "idle"
    /\ requestBody = NotJson
    /\ conversationMessages = <<>>
    /\ latestUserMessage = <<>>
    /\ stage = ""
    /\ poolNow = 0
    /\ orderedModels = <<>>
    /\ modelIndex = 0
    /\ selectedTool = ""
    /\ attempt = 0
    /\ lastErrorMessage = <<>>
    /\ lastStatus = 0
    /\ inflight = NoInflight
    /\ calls = NoCalls
    /\ lastReply = NoReply
    /\ response = NoResponse
    /\ lastListing = NoListing
    /\ lastPrimary = NoPrimary
    /\ PoolInit
    /\ ChatInit
    /\ ClientInit
    /\ SnapshotInit

\* the handler returns
Return(r) ==
    /\ pc' = "done"
    /\ response' = r
    /\ inflight' = NoInflight
    /\ lastPrimary' = IF calls.answer = 0 THEN NoPrimary ELSE lastPrimary
    /\ UNCHANGED <<modelPoolCache, rotationCursor, poolNow, stage, orderedModels, modelIndex,
                   calls>>

\* the code that runs once getRotatingModelOrder has returned `order` to the
\* caller `caller`: the first completion call of the loop that follows
\* (decideAssistantTool 910-919, buildEmailToolResponse 613-618, POST 1228-1254)
Enter(caller, order, made) ==
    LET models == IF Len(order) > 0 THEN order ELSE <<"openrouter/free">>
    IN  /\ orderedModels' = IF caller = "answer" THEN order ELSE models
        /\ IF caller = "answer"
           THEN /\ pc' = "answer_wait"
                /\ modelIndex' = modelIndex
                /\ inflight' = [model |-> IF Len(order) > 0 THEN order[1] ELSE "openrouter/free",
                                models |-> SliceTo(SubSeq(order, 2, Len(order)),
                                                   MAX_OPENROUTER_FALLBACK_MODELS)]
                /\ calls' = [made EXCEPT !.answer = @ + 1]
                /\ lastPrimary' =
                       IF made.answer = 0
                       THEN [set |-> TRUE,
                             model |-> IF Len(order) > 0 THEN order[1] ELSE "openrouter/free",
                             cache |-> modelPoolCache']
                       ELSE lastPrimary
           ELSE /\ pc' = IF caller = "router" THEN "router_wait" ELSE "email_wait"
                /\ modelIndex' = 0
                /\ inflight' = [model |-> models[1], models |-> <<>>]
                /\ calls' = [made EXCEPT ![caller] = @ + 1]
                /\ UNCHANGED lastPrimary

\* getRotatingModelOrder called by `caller`, up to its await
getRotatingModelOrder(caller) ==
    /\ stage' = caller
    /\ IF CacheFresh(modelPoolCache, now)
       THEN LET r == rotateModelOrder(modelPoolCache.models, rotationCursor)
            IN  /\ rotationCursor' = r.cursor
                /\ UNCHANGED <<modelPoolCache, poolNow>>
                /\ Enter(caller, r.order, calls)
       ELSE IF ~includeDynamic(env)
       THEN LET cache == BuildPool(env, <<>>, now)
                r == rotateModelOrder(cache.models, rotationCursor)
            IN  /\ modelPoolCache' = cache
                /\ rotationCursor' = r.cursor
                /\ poolNow' = now
                /\ Enter(caller, r.order, calls)
       ELSE /\ pc' = "listing"
            /\ poolNow' = now
            /\ calls' = Called("listing")
            /\ UNCHANGED <<modelPoolCache, rotationCursor, orderedModels, lastPrimary,
                           modelIndex, inflight>>

\* a request arrives
Arrive(b) ==
    /\ pc \in {"idle", "done"}
    /\ pc' = "received"
    /\ requestBody' = b
    /\ conversationMessages' = <<>>
    /\ latestUserMessage' = <<>>
    /\ stage' = ""
    /\ orderedModels' = <<>>
    /\ modelIndex' = 0
    /\ selectedTool' = ""
    /\ attempt' = 0
    /\ lastErrorMessage' = <<>>
    /\ lastStatus' = 0
    /\ inflight' = NoInflight
    /\ calls' = NoCalls
    /\ lastReply' = NoReply
    /\ response' = NoResponse
    /\ lastListing' = NoListing
    /\ UNCHANGED otherVars
    /\ UNCHANGED <<env, modelPoolCache, rotationCursor, now, poolNow, lastPrimary>>

\* POST, lines 1157-1197: the body is read and checked
Validate ==
    /\ pc = "received"
    /\ UNCHANGED otherVars
    /\ UNCHANGED <<env, lastListing, now, requestBody, selectedTool, attempt, lastErrorMessage,
                   lastStatus, lastReply>>
    /\ IF ~requestBody.json
       THEN /\ Return(ErrorResponse(NotJsonText, 500))
            /\ UNCHANGED <<conversationMessages, latestUserMessage>>
       ELSE LET query == IF requestBody.query.str THEN Trim(requestBody.query.text) ELSE <<>>
                conversation == normalizeConversation(requestBody)
                hasConversation == Len(conversation) > 0
                messages == IF hasConversation THEN conversation
                            ELSE <<[role |-> "user", content |-> query]>>
                latest == messages[Len(messages)].content
            IN  IF ~hasConversation /\ query = <<>>
                THEN /\ Return(ErrorResponse(MissingQuery, 400))
                     /\ UNCHANGED <<conversationMessages, latestUserMessage>>
                ELSE IF ~env.apiKey
                THEN /\ Return(ErrorResponse(KeyNotConfigured, 500))
                     /\ UNCHANGED <<conversationMessages, latestUserMessage>>
                ELSE IF messages[Len(messages)].role # "user"
                THEN /\ Return(ErrorResponse(LastMustBeUser, 400))
                     /\ conversationMessages' = messages
                     /\ UNCHANGED latestUserMessage
                ELSE /\ conversationMessages' = messages
                     /\ latestUserMessage' = latest
                     /\ IF buildAgeAnswer(latest) # <<>>
                        THEN Return(AnswerResponse(buildAgeAnswer(latest), "local/profile-facts", FALSE, 0,
                                                   "get_profile_context", NoAction))
                        ELSE /\ getRotatingModelOrder("router")
                             /\ UNCHANGED response

\* the listing endpoint answers fetchFreeModels (getRotatingModelOrder 1130-1143)
ListingRespond(reply) ==
    /\ pc = "listing"
    /\ lastListing' = reply
    /\ LET fetched == fetchFreeModels(reply, env)
           discoveredModels == IF fetched.threw THEN <<>> ELSE fetched.models
           cache == BuildPool(env, discoveredModels, poolNow)
           r == rotateModelOrder(cache.models, rotationCursor)
       IN  /\ modelPoolCache' = cache
           /\ rotationCursor' = r.cursor
           /\ Enter(stage, r.order, calls)
    /\ UNCHANGED otherVars
    /\ UNCHANGED <<env, now, requestBody, conversationMessages, latestUserMessage, stage,
                   poolNow, selectedTool, attempt, lastErrorMessage, lastStatus, lastReply,
                   response>>

\* variant: the content of a reply whatever its status and error field
AnyContent(reply) == reply.content

\* variant: the error field is not looked at
ContentOfOkReply(reply) ==
    IF reply.kind # "json" THEN NoField
    ELSE IF ~Ok(reply) THEN NoField
    ELSE IF ~reply.content.str \/ reply.content.text = <<>> THEN NoField
    ELSE reply.content
\* lines 956-960 and 680-684: the content of a reply the loop goes on with,
\* NoField when the loop continues
UsableContent(reply) ==
    IF reply.kind # "json" THEN NoField
    ELSE IF ~Ok(reply) \/ reply.error.present THEN NoField
    ELSE IF ~reply.content.str \/ reply.content.text = <<>> THEN NoField
    ELSE reply.content

\* decideAssistantTool has returned `tool` (POST 1198-1213)
Decided(tool) ==
    /\ selectedTool' = tool
    /\ IF tool = "compose_email_draft"
       THEN getRotatingModelOrder("email")
       ELSE /\ pc' = "context"
            /\ inflight' = NoInflight
            /\ UNCHANGED <<modelPoolCache, rotationCursor, poolNow, stage, orderedModels,
                           lastPrimary, modelIndex, calls>>

\* the next round of the loop of decideAssistantTool / buildEmailToolResponse
NextModel(kind) ==
    /\ modelIndex' = modelIndex + 1
    /\ inflight' = [model |-> orderedModels[modelIndex + 2], models |-> <<>>]
    /\ calls' = Called(kind)
    /\ UNCHANGED <<pc, modelPoolCache, rotationCursor, poolNow, stage, orderedModels, lastPrimary>>

\* variant: the router asks every model of the pool
RouterAsksAll(reply) ==
    /\ pc = "router_wait"
    /\ lastReply' = reply
    /\ LET content == UsableContent(reply)
           choice == IF content.str THEN parseToolChoice(content.text) ELSE ""
       IN  IF choice # "" THEN Decided(choice)
           ELSE IF modelIndex + 1 < Len(orderedModels)
           THEN NextModel("router") /\ UNCHANGED selectedTool
           ELSE Decided("get_profile_context")
    /\ UNCHANGED otherVars
    /\ UNCHANGED <<env, lastListing, now, requestBody, conversationMessages, latestUserMessage,
                   attempt, lastErrorMessage, lastStatus, response>>
\* a router call is answered (decideAssistantTool 956-969)
RouterRespond(reply) ==
    /\ pc = "router_wait"
    /\ lastReply' = reply
    /\ LET content == UsableContent(reply)
           choice == IF content.str THEN parseToolChoice(content.text) ELSE ""
       IN  IF choice # "" THEN Decided(choice)
           ELSE IF modelIndex + 1 < Min(ROUTER_ATTEMPTS, Len(orderedModels))
           THEN NextModel("router") /\ UNCHANGED selectedTool
           ELSE Decided("get_profile_context")
    /\ UNCHANGED otherVars
    /\ UNCHANGED <<env, lastListing, now, requestBody, conversationMessages, latestUserMessage,
                   attempt, lastErrorMessage, lastStatus, response>>

\* the objects a drafting model returns and the messages a draft is written for
RawDrafts == {EmptyDraft, GoodDraft, SurrogateDraft, LongDraft}
UserMessages == {T_hi, T_mail, T_party, T_write}
\* sanitizeEmailDraft of each of them, computed once
Sanitized ==
    [raw \in RawDrafts, userMessage \in UserMessages |-> sanitizeEmailDraft(raw, userMessage)]

\* `Drafted an email (${recipientLabel}). Subject: ${draft.subject}`
DraftedAnswer(draft) ==
    <<Cap("drafted"), SP, Wd("an"), SP, Wd("email"), SP, Pun("(")>>
        \o (IF draft.to # <<>> THEN draft.to ELSE <<Wd("recipient"), SP, Wd("not"), SP, Wd("set")>>)
        \o <<Pun(")"), Pun("."), SP, Cap("subject"), Pun(":"), SP>> \o draft.subject
\* the ToolAction of a draft
EmailAction(draft) ==
    [type |-> "email_compose", href |-> draft.href, to |-> draft.to, subject |-> draft.subject,
     body |-> draft.body]

\* lines 686-690: the draft of a reply; threw when JSON.parse or sanitizeEmailDraft
\* throws or the loop continues
DraftFrom(reply, userMessage) ==
    LET content == UsableContent(reply)
        jsonText == IF content.str THEN extractJsonObject(content.text) ELSE <<>>
        parsed == ParseObject(jsonText)
    IN  IF jsonText = <<>> \/ ~parsed.ok THEN DraftThrew
        ELSE Sanitized[parsed.draft, userMessage]

\* buildEmailToolResponse 715-734 and POST 1210, 1293-1295
FallbackResponse(fallbackDraft) ==
    IF fallbackDraft.threw THEN Return(ErrorResponse(UriMalformed, 500))
    ELSE Return(AnswerResponse(DraftedAnswer(fallbackDraft), "local/email-tool", FALSE, 0,
                               "compose_email_draft", EmailAction(fallbackDraft)))
\* variant: when no attempt gave a draft the request goes on to the context answer
FallThroughToContext ==
    /\ pc' = "context"
    /\ inflight' = NoInflight
    /\ UNCHANGED <<modelPoolCache, rotationCursor, poolNow, stage, orderedModels, lastPrimary,
                   modelIndex, calls, response>>
\* buildEmailToolResponse 715: sanitizeEmailDraft({}, userMessage), outside the try
FallbackDraft ==
    LET fallbackDraft == Sanitized[EmptyDraft, latestUserMessage]
    IN  FallbackResponse(fallbackDraft)

\* variant: the first attempt without a draft ends in the local draft
LocalDraftAtOnce(reply, draft) ==
    IF ~draft.threw
    THEN Return(AnswerResponse(DraftedAnswer(draft),
                               IF reply.model # "" THEN reply.model ELSE inflight.model,
                               Len(orderedModels) > 1, Len(orderedModels),
                               "compose_email_draft", EmailAction(draft)))
    ELSE FallbackDraft
\* buildEmailToolResponse 686-714: what the loop does with the draft of a reply
DraftRespond(reply, draft) ==
    IF ~draft.threw
    THEN Return(AnswerResponse(DraftedAnswer(draft),
                               IF reply.model # "" THEN reply.model ELSE inflight.model,
                               Len(orderedModels) > 1, Len(orderedModels),
                               "compose_email_draft", EmailAction(draft)))
    ELSE IF modelIndex + 1 < Min(EMAIL_ATTEMPTS, Len(orderedModels))
    THEN NextModel("email") /\ UNCHANGED response
    ELSE FallbackDraft
\* a drafting call is answered (buildEmailToolResponse 680-713)
EmailRespond(reply) ==
    /\ pc = "email_wait"
    /\ lastReply' = reply
    /\ LET draft == DraftFrom(reply, latestUserMessage)
       IN  DraftRespond(reply, draft)
    /\ UNCHANGED otherVars
    /\ UNCHANGED <<env, lastListing, now, requestBody, conversationMessages, latestUserMessage,
                   selectedTool, attempt, lastErrorMessage, lastStatus>>

\* buildProfileContextToolOutput has returned (POST 1213-1229)
ContextAssembled ==
    /\ pc = "context"
    /\ attempt' = 0
    /\ lastErrorMessage' = RequestFailed
    /\ lastStatus' = 502
    /\ getRotatingModelOrder("answer")
    /\ UNCHANGED otherVars
    /\ UNCHANGED <<env, lastListing, now, requestBody, conversationMessages, latestUserMessage,
                   selectedTool, lastReply, response>>

\* variant: a failed attempt ends the request
StopAfterAttempt(message, status) ==
    /\ lastErrorMessage' = message
    /\ lastStatus' = status
    /\ Return(ErrorResponse(message, status))
\* variant: when the attempts are used up the response is the generic error
GenericAfterAttempt(message, status) ==
    /\ lastErrorMessage' = message
    /\ lastStatus' = status
    /\ IF attempt = MAX_REQUEST_ATTEMPTS - 1
       THEN Return(ErrorResponse(RequestFailed, 502))
       ELSE /\ pc' = "backoff"
            /\ inflight' = NoInflight
            /\ UNCHANGED <<modelPoolCache, rotationCursor, poolNow, stage, orderedModels,
                           lastPrimary, modelIndex, calls, response>>

\* POST 1288-1289 and 1292: after a failed attempt, stop or wait
AfterAttempt(message, status) ==
    /\ lastErrorMessage' = message
    /\ lastStatus' = status
    /\ IF attempt = MAX_REQUEST_ATTEMPTS - 1
       THEN Return(ErrorResponse(message, status))
       ELSE /\ pc' = "backoff"
            /\ inflight' = NoInflight
            /\ UNCHANGED <<modelPoolCache, rotationCursor, poolNow, stage, orderedModels,
                           lastPrimary, modelIndex, calls, response>>

\* POST 1273-1274
ErrorStatus(reply) ==
    IF reply.error.present /\ reply.error.code # 0 THEN reply.error.code
    ELSE IF reply.status # 0 THEN reply.status ELSE 502

\* the answering call is answered (POST 1256-1292)
AnswerRespond(reply) ==
    /\ pc = "answer_wait"
    /\ lastReply' = reply
    /\ IF reply.kind # "json"
       THEN AfterAttempt(RequestFailedWith
                             \o (IF reply.kind = "throw" THEN FetchFailed ELSE NotJsonText), 502)
       ELSE IF Ok(reply) /\ ~reply.error.present
       THEN IF parseAnswer(reply) # <<>>
            THEN /\ Return(AnswerResponse(parseAnswer(reply),
                                          IF reply.model # "" THEN reply.model
                                          ELSE inflight.model,
                                          Len(orderedModels) > 1, Len(orderedModels),
                                          "get_profile_context", NoAction))
                 /\ UNCHANGED <<lastErrorMessage, lastStatus>>
            ELSE AfterAttempt(EmptyContent, 502)
       ELSE LET errorStatus == ErrorStatus(reply)
                message == formatOpenRouterErrorMessage(reply, RequestFailed)
            IN  IF ~(isRetriableStatus(errorStatus) \/ isRetriableProviderError(reply))
                THEN /\ lastStatus' = errorStatus
                     /\ lastErrorMessage' = message
                     /\ Return(ErrorResponse(message, errorStatus))
                ELSE AfterAttempt(message, errorStatus)
    /\ UNCHANGED otherVars
    /\ UNCHANGED <<env, lastListing, now, requestBody, conversationMessages, latestUserMessage,
                   selectedTool, attempt>>

\* delay(RETRY_BACKOFF_MS * (attempt + 1)) is over (POST 1227-1229)
BackoffElapsed ==
    /\ pc = "backoff"
    /\ attempt' = attempt + 1
    /\ getRotatingModelOrder("answer")
    /\ UNCHANGED otherVars
    /\ UNCHANGED <<env, lastListing, now, requestBody, conversationMessages, latestUserMessage,
                   selectedTool, lastErrorMessage, lastStatus, lastReply, response>>

\* time passes
Tick ==
    /\ now < MaxNow * DEFAULT_REFRESH_MS
    /\ now' = now + DEFAULT_REFRESH_MS
    /\ UNCHANGED otherVars
    /\ UNCHANGED <<env, lastListing, modelPoolCache, rotationCursor, pc, requestBody,
                   conversationMessages, latestUserMessage, stage, poolNow, orderedModels,
                   lastPrimary, modelIndex, selectedTool, attempt, lastErrorMessage, lastStatus,
                   inflight, calls, lastReply, response>>

Next ==
    \/ \E b \in Requests : Arrive(b)
    \/ Validate
    \/ \E reply \in ListingReplies : ListingRespond(reply)
    \/ \E reply \in RouterReplies : RouterRespond(reply)
    \/ \E reply \in EmailReplies : EmailRespond(reply)
    \/ ContextAssembled
    \/ \E reply \in AnswerReplies : AnswerRespond(reply)
    \/ BackoffElapsed
    \/ Tick

Spec == Init /\ [][Next]_vars

\* The steps the handler takes by itself happen; nothing makes the upstream
\* answer: no call is given a signal or a timeout (lines 618, 919, 1089, 1235).
FairSpec ==
    /\ Spec
    /\ WF_vars(Validate)
    /\ WF_vars(ContextAssembled)
    /\ WF_vars(BackoffElapsed)

(***************************************************************************)
(* Properties.                                                             *)
(***************************************************************************)
\* what the properties say about a request and a reply, in their own words
Blank(text) == \A k \in 1..Len(text) : IsWs(text[k])
\* the user and assistant messages of the request that have text
Kept(b) ==
    IF ~b.array THEN <<>>
    ELSE SelectSeq(b.messages,
                   LAMBDA m : m.role \in {"user", "assistant"} /\ m.str /\ ~Blank(m.content))
QueryText(b) == IF b.query.str THEN b.query.text ELSE <<>>
LastKeptNotUser(b) == Kept(b) # <<>> /\ Kept(b)[Len(Kept(b))].role # "user"
ClientError(b) ==
    /\ b.json
    /\ \/ Blank(QueryText(b)) /\ Kept(b) = <<>>
       \/ LastKeptNotUser(b)
AgeQuestions == {T_age}
\* the latest user message of the request asks for the age
AgeRequest(b) ==
    /\ b.json
    /\ IF Kept(b) # <<>>
       THEN Kept(b)[Len(Kept(b))].role = "user" /\ Kept(b)[Len(Kept(b))].content \in AgeQuestions
       ELSE QueryText(b) \in AgeQuestions
Validated == pc \notin {"idle", "received"}
Upstream == {"listing", "router_wait", "email_wait", "answer_wait"}
Success(r) == r.kind = "json" /\ r.status \in 200..299 /\ ~r.error.present
\* the content is text whose only JSON object names the tool compose_email_draft
NamesCompose(r) ==
    /\ r.content.str
    /\ SelectSeq(r.content.text, LAMBDA t : t.k = "j" \/ (t.k = "p" /\ t.w \in {"{", "}"}))
           = <<Obj("tool:compose_email_draft")>>
RetriableStatuses == {429, 502, 503, 504, 529}
\* the status of an error outcome: the numeric code of the error, else the HTTP status
OutcomeStatus(r) == IF r.error.present /\ r.error.code # 0 THEN r.error.code ELSE r.status
Transient(r) ==
    r.error.present /\ r.error.message.str /\ HasMatch(r.error.message.text, TransientPhrases)
FatalError(r) ==
    /\ r.kind = "json" /\ ~Success(r)
    /\ OutcomeStatus(r) \notin RetriableStatuses
    /\ ~Transient(r)

C2_EmailPathNeverFails ==
    (pc = "done" /\ selectedTool = "compose_email_draft") =>
        /\ response.kind = "answer"
        /\ response.tool = "compose_email_draft"
        /\ response.action.type = "email_compose"
        /\ StartsWithMailto(response.action.href)

\* C3: a response with an error field has a status outside 200..299.
C3_ErrorResponsesAreNot2xx == response.kind = "error" => response.status \notin 200..299

\* C4: a request that waits for an upstream call is eventually answered, also
\* when the upstream never answers that call.
C4_UpstreamCallTimesOut == (pc \in Upstream) ~> (pc = "done")

\* C5 as stated: a request whose messages array ends with an entry that is
\* not a user message is refused with status 400, "Last message must be from
\* the user.", and gets no answer.
C5_LastEntryNotUser ==
    (/\ Validated /\ requestBody.json /\ requestBody.array /\ requestBody.messages # <<>>
     /\ requestBody.messages[Len(requestBody.messages)].role # "user") =>
        /\ pc = "done"
        /\ response = ErrorResponse(LastMustBeUser, 400)
\* C5 amended: with the API key configured, a request whose last user or
\* assistant message with text is not a user message is refused with status
\* 400, "Last message must be from the user.", and gets no answer.
C5_LastKeptMessageNotUser ==
    (Validated /\ requestBody.json /\ env.apiKey /\ LastKeptNotUser(requestBody)) =>
        /\ pc = "done"
        /\ response.kind = "error" /\ response.status = 400
        /\ response.error = LastMustBeUser
        /\ response.answer = <<>>
\* C5 witness: a conversation that ends with an assistant message was refused
C5_AssistantLastRefused ==
    /\ pc = "done" /\ env.apiKey /\ requestBody.json /\ LastKeptNotUser(requestBody)
    /\ response.status = 400

\* C6: the step that checks a client-error request ends it with an error
\* response, makes no upstream call and leaves cursor and cache as they were.
C6_ClientErrorImmediately ==
    [][(pc = "received" /\ pc' # "received" /\ ClientError(requestBody)) =>
          /\ pc' = "done"
          /\ response'.kind = "error"
          /\ calls' = NoCalls
          /\ rotationCursor' = rotationCursor
          /\ modelPoolCache' = modelPoolCache]_vars
\* C6 witness: a client-error request was refused while a pool was cached and
\* the cursor had moved
C6_RefusedWithPoolCached ==
    /\ pc = "done" /\ ClientError(requestBody) /\ response.kind = "error"
    /\ modelPoolCache.set /\ rotationCursor > 0

\* C7 as stated: the step that checks a request asking for the age answers it
\* from static data (model local/profile-facts, tool get_profile_context),
\* makes no upstream call and leaves cursor and cache as they were.
C7_ShortCircuitFirst ==
    [][(pc = "received" /\ pc' # "received" /\ AgeRequest(requestBody)) =>
          /\ pc' = "done"
          /\ response'.kind = "answer"
          /\ response'.model = "local/profile-facts"
          /\ response'.tool = "get_profile_context"
          /\ calls' = NoCalls
          /\ rotationCursor' = rotationCursor
          /\ modelPoolCache' = modelPoolCache]_vars
\* C7 amended: the same, when the API key is configured.
C7_ShortCircuitAfterKeyCheck ==
    [][(pc = "received" /\ pc' # "received" /\ AgeRequest(requestBody) /\ env.apiKey) =>
          /\ pc' = "done"
          /\ response'.kind = "answer"
          /\ response'.answer # <<>>
          /\ response'.model = "local/profile-facts"
          /\ response'.tool = "get_profile_context"
          /\ calls' = NoCalls
          /\ rotationCursor' = rotationCursor
          /\ modelPoolCache' = modelPoolCache]_vars
\* C7 witness: an age question was answered locally while a pool was cached
\* and the cursor had moved
C7_AgeAnsweredLocally ==
    /\ pc = "done" /\ AgeRequest(requestBody) /\ response.model = "local/profile-facts"
    /\ calls = NoCalls /\ modelPoolCache.set /\ rotationCursor > 0

\* C8: a request makes at most 4 answering calls, each naming at most 3
\* fallback models, a new cycle starts only while fewer than 4 have run, and
\* a request that reached context Q&A ends with an answer or an error.
C8_BoundedCyclesAndEnds ==
    /\ [](/\ calls.answer <= MAX_REQUEST_ATTEMPTS
          /\ Len(inflight.models) <= MAX_OPENROUTER_FALLBACK_MODELS
          /\ (pc = "backoff" => calls.answer < MAX_REQUEST_ATTEMPTS))
    /\ (pc = "context") ~> (pc = "done" /\ response.kind \in {"answer", "error"})

\* C9: when the answering call comes back with an error that is not
\* retriable, the request ends in that step with that error and no further
\* completion call.
C9_FatalErrorEndsLoop ==
    [][(pc = "answer_wait" /\ pc' # "answer_wait" /\ FatalError(lastReply')) =>
          /\ pc' = "done"
          /\ response'.kind = "error"
          /\ response'.status = OutcomeStatus(lastReply')
          /\ response'.error = lastErrorMessage'
          /\ calls' = calls]_vars
\* C9 witness: the second cycle ended the request with an auth failure
C9_AuthFailureOnSecondCycle ==
    /\ pc = "done" /\ FatalError(lastReply) /\ lastReply.status = 401
    /\ response.status = 401 /\ calls.answer = 2

\* C10: when the answering call comes back with a body that cannot be
\* parsed, the request ends in that step: no further completion call.
C10_MalformedReplyNotRetried ==
    [][(pc = "answer_wait" /\ pc' # "answer_wait" /\ lastReply'.kind = "malformed") =>
          pc' = "done"]_vars

\* an HTTP success without error field and without text
EmptySuccess(r) == Success(r) /\ (~r.content.str \/ Blank(r.content.text))
\* C11: when the answering call comes back as a success without content or
\* fails with a transport exception and fewer than 4 cycles have run, the
\* request is not ended: it waits, and the wait ends in the next cycle.
C11_EmptyAndTransportRetried ==
    [][/\ (/\ pc = "answer_wait" /\ pc' # "answer_wait"
           /\ EmptySuccess(lastReply') \/ lastReply'.kind = "throw"
           /\ calls.answer < 4) =>
              /\ pc' = "backoff"
              /\ response' = NoResponse
       /\ (pc = "backoff" /\ pc' # "backoff") =>
              \/ pc' = "answer_wait" /\ calls'.answer = calls.answer + 1
              \/ pc' = "listing"]_vars
\* C11 witness: the fourth cycle runs after a transport exception
C11_FourthCycleAfterException ==
    pc = "answer_wait" /\ calls.answer = 4 /\ lastReply.kind = "throw"

\* an error reply whose status or message makes it retriable
RetriableError(r) ==
    /\ r.kind = "json" /\ ~Success(r)
    /\ OutcomeStatus(r) \in RetriableStatuses \/ Transient(r)
\* the message of an error reply, with the name of the provider when it has one
ErrorText(r) ==
    (IF r.error.present /\ r.error.message.str THEN r.error.message.text ELSE RequestFailed)
        \o (IF r.error.present /\ r.error.provider # ""
            THEN <<SP, Pun("("), Wd("provider"), Pun(":"), SP, Wd(r.error.provider), Pun(")")>>
            ELSE <<>>)
\* a cycle that ends in an outcome after which the loop goes on
RetriableOutcome(r) == RetriableError(r) \/ EmptySuccess(r) \/ r.kind = "throw"
\* the message and the status that such a cycle leaves
OutcomeText(r) ==
    IF r.kind = "throw" THEN RequestFailedWith \o FetchFailed
    ELSE IF EmptySuccess(r) THEN EmptyContent
    ELSE ErrorText(r)
OutcomeCode(r) == IF r.kind = "throw" \/ EmptySuccess(r) THEN 502 ELSE OutcomeStatus(r)
\* C12: when the fourth cycle ends in a retriable outcome too, the response
\* is an error with the message and the status of that last cycle, and no
\* answer.
C12_LastErrorSurfaces ==
    [][(/\ pc = "answer_wait" /\ pc' # "answer_wait"
        /\ calls.answer = 4 /\ RetriableOutcome(lastReply')) =>
           /\ pc' = "done"
           /\ response'.kind = "error"
           /\ response'.error = OutcomeText(lastReply')
           /\ response'.status = OutcomeCode(lastReply')
           /\ response'.answer = <<>>]_vars
\* C12 witness: four cycles ended with 503 and the response has status 503
C12_Four503s ==
    /\ pc = "done" /\ calls.answer = 4 /\ lastReply = Overloaded
    /\ response.kind = "error" /\ response.status = 503

\* C13: a reply with an error field is not used as a success: the router
\* does not take its tool choice, the email tool does not return its draft,
\* and context Q&A does not return its content as the answer.
C13_ErrorFieldIsAuthoritative ==
    [][(pc \in {"router_wait", "email_wait", "answer_wait"} /\ now' = now
        /\ lastReply'.error.present) =>
           /\ pc = "router_wait" /\ selectedTool' # "" => selectedTool' = "get_profile_context"
           /\ pc = "email_wait" /\ response'.kind = "answer" =>
                  response'.model = "local/email-tool"
           /\ pc = "answer_wait" => response'.kind # "answer"]_vars
\* C13 witness: a reply with HTTP success, content and an error field ended
\* context Q&A with an error
C13_ErrorBesideContent ==
    /\ pc = "done" /\ stage = "answer" /\ response.kind = "error"
    /\ lastReply.error.present /\ Ok(lastReply)
    /\ lastReply.content.str /\ ~Blank(lastReply.content.text)

\* the pool manager in the words of the properties
Waiting == {"router_wait", "email_wait", "answer_wait"}
\* a step in which getRotatingModelOrder returns to its caller
Consulted == pc' \in Waiting /\ pc' # pc
\* the configured models: the entries of OPENROUTER_MODELS that are not blank
Configured(e) == SelectSeq(e.models, LAMBDA m : m \notin {"", " "})
HardFallback == "openrouter/free"
DiscoveryDisabled(e) == e.dynamic = "false"
DiscoveryFailed(l) == l.kind # "json" \/ l.status \notin 200..299
\* the models that discovery gave
Discovered(l, e) ==
    IF DiscoveryDisabled(e) \/ DiscoveryFailed(l) THEN <<>> ELSE fetchFreeModels(l, e).models
RECURSIVE KeepFirst(_)
\* a list without the later occurrences of its entries
KeepFirst(list) ==
    IF list = <<>> THEN <<>>
    ELSE LET front == KeepFirst(SubSeq(list, 1, Len(list) - 1))
             last == list[Len(list)]
         IN  IF \E k \in 1..Len(front) : front[k] = last THEN front ELSE Append(front, last)
PoolSizeLimit(e) == IF e.poolSize.set /\ e.poolSize.n > 0 THEN e.poolSize.n ELSE 8
Rotated(pool, start) ==
    [k \in 1..Len(pool) |-> pool[((start + k - 1) % Len(pool)) + 1]]
RECURSIVE Firsts(_, _, _)
\* the first elements of `count` consecutive consultations of a pool
Firsts(pool, cursor, count) ==
    IF count = 0 THEN <<>>
    ELSE LET r == rotateModelOrder(pool, cursor)
         IN  <<r.order[1]>> \o Firsts(pool, r.cursor, count - 1)

\* C14: getRotatingModelOrder returns a pool that is not empty, and the pool
\* it builds while discovery is disabled or has failed is the configured
\* models followed by the hard-coded fallback.
C14_PoolNeverEmpty ==
    /\ [](modelPoolCache.set => modelPoolCache.models # <<>>)
    /\ [][/\ Consulted => orderedModels' # <<>>
          /\ (/\ modelPoolCache' # modelPoolCache
              /\ DiscoveryDisabled(env) \/ DiscoveryFailed(lastListing')) =>
                 modelPoolCache'.models = KeepFirst(Configured(env) \o <<HardFallback>>)]_vars
\* C14 witness: discovery failed and the pool is the configured model and
\* the fallback
C14_DegradedPool ==
    /\ pc \in Waiting /\ ~DiscoveryDisabled(env) /\ lastListing.kind = "throw"
    /\ modelPoolCache.models = <<"acme/alpha", "openrouter/free">>
    /\ orderedModels # <<>>

\* C15: the cached pool is never longer than the configured pool size.
C15_PoolWithinSize ==
    modelPoolCache.set => Len(modelPoolCache.models) <= PoolSizeLimit(env)

\* C16: the pool that is cached is the configured models, then the
\* discovered models, then the fallback, each id at its first occurrence
\* only; no id is in the cached pool twice.
C16_MergedInOrder ==
    /\ [](\A j, k \in 1..Len(modelPoolCache.models) :
              modelPoolCache.models[j] = modelPoolCache.models[k] => j = k)
    /\ [][modelPoolCache' # modelPoolCache =>
             modelPoolCache'.models =
                 KeepFirst(Configured(env) \o Discovered(lastListing', env)
                               \o <<HardFallback>>)]_vars
\* C16 witness: a configured model, a discovered model and the fallback
C16_ThreeSources ==
    /\ modelPoolCache.set /\ lastListing.kind = "json" /\ lastListing.data # <<>>
    /\ modelPoolCache.models = <<"acme/alpha", "openai/gpt-oss-20b:free", "openrouter/free">>

\* C17: a consultation of a pool of n > 1 models returns the pool rotated to
\* start at cursor mod n and moves the cursor to (cursor + 1) mod n; a pool
\* of one model is returned as it is; n consultations in a row of a cached
\* pool of n > 1 models put each model first exactly once.
C17_RoundRobin ==
    /\ [](modelPoolCache.set /\ Len(modelPoolCache.models) > 1 =>
             LET pool == modelPoolCache.models
                 firsts == Firsts(pool, rotationCursor, Len(pool))
             IN  /\ \A j, k \in 1..Len(pool) : firsts[j] = firsts[k] => j = k
                 /\ {firsts[k] : k \in 1..Len(pool)} = {pool[k] : k \in 1..Len(pool)})
    /\ [][Consulted =>
             LET pool == modelPoolCache'.models
             IN  IF Len(pool) > 1
                 THEN /\ orderedModels' = Rotated(pool, rotationCursor % Len(pool))
                      /\ rotationCursor' = (rotationCursor + 1) % Len(pool)
                 ELSE /\ orderedModels' = pool
                      /\ rotationCursor' = rotationCursor]_vars
\* C17 witness: the cursor of a pool of five has come round to 0 again
C17_CursorCameRound ==
    /\ pc \in Waiting /\ Len(modelPoolCache.models) = 5 /\ rotationCursor = 0
    /\ orderedModels[1] = modelPoolCache.models[5]

\* C18: when a request makes its first answering call against the cached
\* pool, of more than one model, that the request before it made its first
\* answering call against, the two calls name different primary models.
C18_ConsecutivePrimariesDiffer ==
    [][(/\ calls.answer = 0 /\ calls'.answer = 1
        /\ lastPrimary.set /\ lastPrimary.cache = modelPoolCache'
        /\ Len(modelPoolCache'.models) > 1) =>
           inflight'.model # lastPrimary.model]_vars

\* a draft within the limits of the synthesizer
WithinLimits(d) ==
    /\ d.subject # <<>> /\ Units(d.subject) <= SUBJECT_MAX
    /\ Units(d.body) <= BODY_MAX
    /\ StartsWithMailto(d.href)
\* the tests of lines 472-487 on a body as it stands
FormalBody(body, userMessage) ==
    /\ ~HasWord(body, {"idk", "lol", "bro", "whatever"})
    /\ body # <<>> /\ IsWord(Head(body), {"hello", "dear"})
    /\ HasWord(body, FirstPerson)
    /\ HasWord(body, {"regards", "sincerely"})
    /\ HasParagraphSpacing(body)
    /\ ~(HasMatch(userMessage, MailThem) /\ HasWord(body, HeOrThey))
DraftReturned == response.kind = "answer" /\ response.tool = "compose_email_draft"

\* C19: for the message of a request that the email tool handles and every
\* draft the upstream model may propose, or none, sanitizeEmailDraft returns
\* a draft with a subject of 1 to 72 code units, a body of at most 2000 code
\* units and an href that starts with "mailto:".
C19_DraftWithinLimits ==
    stage = "email" =>
        \A raw \in RawDrafts :
            /\ ~Sanitized[raw, latestUserMessage].threw
            /\ WithinLimits(Sanitized[raw, latestUserMessage])

\* C20: the subject of a draft that is returned has no obvious subject issue,
\* and its body passes the formality tests.
C20_OutputPassesOwnChecks ==
    DraftReturned =>
        /\ ~hasObviousSubjectIssues(response.action.subject)
        /\ FormalBody(response.action.body, latestUserMessage)

\* every draft that is returned is within the limits
ReturnedDraftWithinLimits == DraftReturned => WithinLimits(response.action)
\* the body of every draft that is returned passes the formality tests
ReturnedBodyIsFormal == DraftReturned => FormalBody(response.action.body, latestUserMessage)

\* the email addresses that a text holds, in lower case
AddressesIn(text) ==
    {[text[i] EXCEPT !.up = FALSE] : i \in {j \in 1..Len(text) : text[j].k = "a" /\ ~text[j].cut}}
AddressesOfTo(raw) == IF raw.to.str THEN AddressesIn(raw.to.text) ELSE {}
\* the message or the proposed recipient holds a part of the owner's name
OwnerNamed(userMessage, raw) ==
    \/ \E i \in 1..Len(userMessage) : IsWord(userMessage[i], {"jerry", "xiao"})
    \/ raw.to.str /\ \E i \in 1..Len(raw.to.text) : IsWord(raw.to.text[i], {"jerry", "xiao"})
OwnerAddress == <<Addr("jerry@xiao.sh")>>
\* the recipient is where the claim says it comes from
RecipientFrom(recipient, userMessage, raw) ==
    /\ \/ recipient = <<>>
       \/ Len(recipient) = 1 /\ recipient[1] \in AddressesIn(userMessage) \cup AddressesOfTo(raw)
       \/ recipient = OwnerAddress /\ OwnerNamed(userMessage, raw)
    /\ AddressesIn(userMessage) # {} =>
           Len(recipient) = 1 /\ recipient[1] \in AddressesIn(userMessage)
    /\ AddressesIn(userMessage) = {} /\ AddressesOfTo(raw) # {} =>
           Len(recipient) = 1 /\ recipient[1] \in AddressesOfTo(raw)
    /\ AddressesIn(userMessage) \cup AddressesOfTo(raw) = {} =>
           recipient = IF OwnerNamed(userMessage, raw) THEN OwnerAddress ELSE <<>>

\* C21: for the message of a request that the email tool handles and every
\* draft the upstream model may propose, the recipient is an address of the
\* message if it holds one, else an address of the proposed recipient if
\* that holds one, else the owner's address if the owner is named, else
\* empty; the draft that is returned carries that recipient.
C21_RecipientNeverInvented ==
    /\ stage = "email" =>
           \A raw \in RawDrafts :
               RecipientFrom(resolveEmailRecipient(latestUserMessage, raw.to),
                             latestUserMessage, raw)
    /\ DraftReturned =>
           \E raw \in RawDrafts : /\ response.action.to = Sanitized[raw, latestUserMessage].to
                                  /\ RecipientFrom(response.action.to, latestUserMessage, raw)
\* C21 witness: the message and the proposed recipient hold different
\* addresses, and the draft goes to the address of the message
C21_MessageAddressWins ==
    /\ DraftReturned /\ response.model # "local/email-tool"
    /\ latestUserMessage = T_write
    /\ response.action.to = <<Addr("pat@example.com")>>

\* the calls of the two capabilities
CapabilityCalls(c) == c.email + c.answer
AllCalls(c) == c.listing + c.router + c.email + c.answer
\* C22: no drafting or answering call is made before the router has decided;
\* a request makes drafting calls or answering calls, never both, and those
\* of the tool that was chosen; a routing call is never made after a
\* capability call; each step issues at most one call, so a call is issued
\* only when the one before it has been answered.
C22_RoutingThenOnePath ==
    /\ [](CapabilityCalls(calls) > 0 => selectedTool # "")
    /\ [](calls.email = 0 \/ calls.answer = 0)
    /\ [](calls.email > 0 => selectedTool = "compose_email_draft")
    /\ [](calls.answer > 0 => selectedTool = "get_profile_context")
    /\ [][/\ calls'.router > calls.router => CapabilityCalls(calls) = 0
          /\ pc' # "received" => AllCalls(calls') \in {AllCalls(calls), AllCalls(calls) + 1}
          /\ AllCalls(calls') = AllCalls(calls) + 1 =>
                 pc' \in Waiting \cup {"listing"} /\ pc \notin {"idle", "done"}]_vars
\* C22 witness: the email tool was chosen on the third routing call and has
\* made three drafting calls; no answering call was made
C22_ThreeAndThree ==
    /\ pc = "done" /\ selectedTool = "compose_email_draft"
    /\ calls.router = 3 /\ calls.email = 3 /\ calls.answer = 0

\* the content is text whose only JSON object names the tool get_profile_context
NamesContext(r) ==
    /\ r.content.str
    /\ SelectSeq(r.content.text, LAMBDA t : t.k = "j" \/ (t.k = "p" /\ t.w \in {"{", "}"}))
           = <<Obj("tool:get_profile_context")>>
\* a reply that classifies the request
Classifies(r) == Success(r) /\ (NamesCompose(r) \/ NamesContext(r))
C24_LocalDraftOnlyAtTheEnd ==
    [][/\ calls'.email = calls.email + 1 =>
             /\ calls'.email <= 3 /\ calls'.email <= Len(orderedModels')
             /\ inflight'.model = orderedModels'[calls'.email]
       /\ (pc = "email_wait" /\ now' = now /\ ~DraftFrom(lastReply', latestUserMessage).threw) =>
             /\ pc' = "done" /\ calls' = calls
             /\ response'.kind = "answer" /\ response'.model # "local/email-tool"
             /\ response'.action = EmailAction(DraftFrom(lastReply', latestUserMessage))
       /\ (pc = "email_wait" /\ response'.model = "local/email-tool") =>
             /\ calls.email = Min(3, Len(orderedModels))
             /\ DraftFrom(lastReply', latestUserMessage).threw
             /\ response'.action = EmailAction(Sanitized[EmptyDraft, latestUserMessage])]_vars
\* C24 witness: the local draft after three drafting calls
C24_LocalAfterThree ==
    /\ pc = "done" /\ calls.email = 3 /\ response.model = "local/email-tool"
    /\ response.kind = "answer"

\* the cache answers a consultation
Unexpired == modelPoolCache.set /\ modelPoolCache.expiresAt > now /\ modelPoolCache.models # <<>>
\* a step in which getRotatingModelOrder is called
PoolAsked == pc # "listing" /\ (pc' = "listing" \/ Consulted)
TimeToLive(e) == IF e.refreshMs.set /\ e.refreshMs.n > 0 THEN e.refreshMs.n ELSE 900000
\* C25: a consultation of an unexpired cache makes no listing call, leaves
\* the cache as it is and returns its pool rotated; a consultation without
\* an unexpired cache makes the listing call (when discovery is enabled) and
\* ends with a new cache, which expires one time-to-live after the
\* consultation began.
C25_CachedForTimeToLive ==
    [][/\ (PoolAsked /\ Unexpired) =>
             /\ pc' # "listing" /\ calls'.listing = calls.listing
             /\ modelPoolCache' = modelPoolCache
             /\ orderedModels' = Rotated(modelPoolCache.models,
                                         rotationCursor % Len(modelPoolCache.models))
       /\ (PoolAsked /\ ~Unexpired) =>
             IF DiscoveryDisabled(env)
             THEN /\ pc' # "listing" /\ calls'.listing = calls.listing
                  /\ modelPoolCache' # modelPoolCache
                  /\ modelPoolCache'.expiresAt = now + TimeToLive(env)
             ELSE /\ pc' = "listing" /\ calls'.listing = calls.listing + 1
                  /\ modelPoolCache' = modelPoolCache
       /\ (pc = "listing" /\ pc' # "listing") =>
             /\ modelPoolCache'.set
             /\ modelPoolCache'.expiresAt = poolNow + TimeToLive(env)
             /\ orderedModels' = Rotated(modelPoolCache'.models,
                                         rotationCursor % Len(modelPoolCache'.models))]_vars
\* C25 witness: the cache of the first request has expired and a later
\* request has built the pool again
C25_RebuiltAfterExpiry ==
    /\ pc \in Waiting /\ calls.listing = 1 /\ now > 0
    /\ modelPoolCache.expiresAt = now + TimeToLive(env)

(***************************************************************************)
(* Concurrent requests on the model pool.  getRotatingModelOrder has one   *)
(* await, the listing call; the code before it and the code after it run   *)
(* without interruption, and any number of requests may be between the two.*)
(***************************************************************************)
\* request w has got `order`, computed from `pool`
PoolReturned(w, began, pool, order) ==
    poolCalls' = [poolCalls EXCEPT
                     ![w] = [at |-> "returned", began |-> began, pool |-> pool, order |-> order]]
\* getRotatingModelOrder called by request w, up to its await (lines 1117-1133)
PoolCall(w) ==
    /\ poolCalls[w].at # "listing"
    /\ IF CacheFresh(modelPoolCache, now)
       THEN LET r == rotateModelOrder(modelPoolCache.models, rotationCursor)
            IN  /\ rotationCursor' = r.cursor
                /\ PoolReturned(w, now, modelPoolCache.models, r.order)
                /\ UNCHANGED modelPoolCache
       ELSE IF ~includeDynamic(env)
       THEN LET cache == BuildPool(env, <<>>, now)
                r == rotateModelOrder(cache.models, rotationCursor)
            IN  /\ modelPoolCache' = cache
                /\ rotationCursor' = r.cursor
                /\ PoolReturned(w, now, cache.models, r.order)
       ELSE /\ poolCalls' = [poolCalls EXCEPT
                                ![w] = [at |-> "listing", began |-> now, pool |-> <<>>,
                                        order |-> <<>>]]
            /\ UNCHANGED <<modelPoolCache, rotationCursor>>
    /\ UNCHANGED <<env, now, requestVars, chatVars, clientVars, snapshotVars>>
\* the listing call of request w is answered (lines 1128-1143)
PoolListed(w, reply) ==
    /\ poolCalls[w].at = "listing"
    /\ LET fetched == fetchFreeModels(reply, env)
           discoveredModels == IF fetched.threw THEN <<>> ELSE fetched.models
           cache == BuildPool(env, discoveredModels, poolCalls[w].began)
           r == rotateModelOrder(cache.models, rotationCursor)
       IN  /\ modelPoolCache' = cache
           /\ rotationCursor' = r.cursor
           /\ PoolReturned(w, poolCalls[w].began, cache.models, r.order)
    /\ UNCHANGED <<env, now, requestVars, chatVars, clientVars, snapshotVars>>

PoolNext ==
    \/ \E w \in Workers : PoolCall(w)
    \/ \E w \in Workers : \E reply \in ListingReplies : PoolListed(w, reply)
    \/ Tick

PoolSpec == Init /\ [][PoolNext]_allVars

CyclicRotation(order, pool) ==
    /\ Len(order) = Len(pool)
    /\ pool # <<>> => \E start \in 0..(Len(pool) - 1) : order = Rotated(pool, start)
\* request w gets its order in this step
Returns(w) == poolCalls'[w].at = "returned" /\ poolCalls'[w] # poolCalls[w]

\* C26: whatever the interleaving of concurrent requests and pool refreshes,
\* the order a request gets from getRotatingModelOrder is a cyclic rotation
\* of the pool it was computed from, and a rotation of a pool of n > 1
\* models leaves the cursor in 0..n-1.
C26_RotationOfItsOwnPool ==
    /\ [](\A w \in Workers :
             poolCalls[w].at = "returned" =>
                 CyclicRotation(poolCalls[w].order, poolCalls[w].pool))
    /\ [][\A w \in Workers :
             (Returns(w) /\ Len(poolCalls'[w].pool) > 1) =>
                 /\ rotationCursor' \in 0..(Len(poolCalls'[w].pool) - 1)
                 /\ poolCalls'[w].order =
                        Rotated(poolCalls'[w].pool, rotationCursor % Len(poolCalls'[w].pool))]_allVars
\* C26 witness: two requests listed at the same time; the second answer
\* replaced the pool of the first by a shorter one, and both got an order
C26_ReplacedWhileListing ==
    /\ poolCalls[1].at = "returned" /\ poolCalls[2].at = "returned"
    /\ poolCalls[1].began = poolCalls[2].began
    /\ Len(poolCalls[1].pool) > Len(poolCalls[2].pool)
    /\ Len(poolCalls[2].pool) > 1
    /\ modelPoolCache.models = poolCalls[2].pool
    /\ poolCalls[1].order # poolCalls[1].pool

(***************************************************************************)
(* POST /api/chat (src/app/api/chat/route.ts).  One request at a time; an  *)
(* action is the code between two awaits.                                  *)
(***************************************************************************)
FREE_MODELS ==
    << "xiaomi/mimo-v2-flash:free", "nvidia/nemotron-3-nano-30b-a3b:free",
       "allenai/olmo-3.1-32b-think:free", "mistralai/devstral-2512:free",
       "nex-agi/deepseek-v3.1-nex-n1:free", "arcee-ai/trinity-mini:free",
       "tngtech/tng-r1t-chimera:free", "allenai/olmo-3-32b-think:free",
       "kwaipilot/kat-coder-pro:free", "alibaba/tongyi-deepresearch-30b-a3b:free",
       "nvidia/nemotron-nano-9b-v2:free", "openai/gpt-oss-120b:free",
       "z-ai/glm-4.5-air:free" >>
\* what tryModel resolves to (it never rejects, lines 57-59)
TryResult(success, error) == [success |-> success, error |-> error]
TryResults ==
    { TryResult(TRUE, ""), TryResult(FALSE, "429: rate limited"),
      TryResult(FALSE, "No content in response"), TryResult(FALSE, "Network error") }
\* NextResponse.json of chat/route.ts
ChatResponse(status, model, error) == [status |-> status, model |-> model, error |-> error]
\* the call of tryModel made by the loop at `attempt`, lines 85-89
ChatTry(index, tries, tried) ==
    /\ chatPc' = "model_wait"
    /\ chatTried' = Append(tried, (index + tries) % Len(FREE_MODELS))
    /\ chatResponse' = NoChatResponse
\* POST, lines 63-89: a request arrives; `parses` is FALSE when request.json() rejects
ChatArrive(parses) ==
    /\ chatPc \in {"idle", "done"}
    /\ chatAttempt' = 0
    /\ chatLastError' = ""
    /\ IF ~parses
       THEN /\ chatPc' = "done"
            /\ chatTried' = <<>>
            /\ chatResponse' = ChatResponse(500, "", "Unexpected end of JSON input")
       ELSE IF ~env.apiKey
       THEN /\ chatPc' = "done"
            /\ chatTried' = <<>>
            /\ chatResponse' = ChatResponse(500, "", "OPENROUTER_API_KEY not configured")
       ELSE ChatTry(currentModelIndex, 0, <<>>)
    /\ UNCHANGED <<currentModelIndex, vars, poolVars, clientVars, snapshotVars>>
\* POST, lines 89-112: tryModel has resolved
ChatModelRespond(result) ==
    /\ chatPc = "model_wait"
    /\ LET called == chatTried[Len(chatTried)]
       IN  IF result.success
           THEN /\ currentModelIndex' = called
                /\ chatPc' = "done"
                /\ chatResponse' = ChatResponse(200, FREE_MODELS[called + 1], "")
                /\ UNCHANGED <<chatAttempt, chatTried, chatLastError>>
           ELSE /\ currentModelIndex' = (called + 1) % Len(FREE_MODELS)
                /\ chatLastError' = result.error
                /\ chatAttempt' = chatAttempt + 1
                /\ IF chatAttempt + 1 < Len(FREE_MODELS)
                   THEN ChatTry(currentModelIndex', chatAttempt + 1, chatTried)
                   ELSE /\ chatPc' = "done"
                        /\ chatResponse' = ChatResponse(503, "", result.error)
                        /\ UNCHANGED chatTried
    /\ UNCHANGED <<vars, poolVars, clientVars, snapshotVars>>

ChatNext ==
    \/ \E parses \in BOOLEAN : ChatArrive(parses)
    \/ \E result \in TryResults : ChatModelRespond(result)

ChatSpec == Init /\ [][ChatNext]_allVars

\* the indices of FREE_MODELS
ModelIndices == 0..(Len(FREE_MODELS) - 1)
\* C27: a request of /api/chat tries the models of FREE_MODELS in rotation,
\* each model after the one before it and no model twice, and answers 503
\* only when every model has been tried in that request.
C27_EachModelOnceThen503 ==
    /\ \A j, k \in 1..Len(chatTried) : chatTried[j] = chatTried[k] => j = k
    /\ \A k \in 1..(Len(chatTried) - 1) :
           chatTried[k + 1] = (chatTried[k] + 1) % Len(FREE_MODELS)
    /\ chatResponse.status = 503 => {chatTried[k] : k \in 1..Len(chatTried)} = ModelIndices

(***************************************************************************)
(* The chat client (ChatClient, part_005), mounted once.  sendMessage and  *)
(* clearChat run without interruption; executePendingRequest waits for the *)
(* answer of /api/ai-search and then runs to its end.                      *)
(***************************************************************************)
\* the number of requests sendMessage starts
MaxSends == 3
\* createMessageId: the ids sendMessage gives to its n-th request
UserMessageId(n) == 3 * n - 2
PendingMessageId(n) == 3 * n - 1
RequestId(n) == 3 * n
\* the PendingChatRequest of the n-th request
PendingChatRequest(n) == [requestId |-> RequestId(n), pendingMessageId |-> PendingMessageId(n)]
\* a ChatMessage; `from` is the request whose answer is its content (0: none)
ChatMessage(id, role, isPending, isError, from, action) ==
    [id |-> id, role |-> role, isPending |-> isPending, isError |-> isError, from |-> from,
     action |-> action]
\* what the call of /api/ai-search gives: `kind` is "throw" when fetch or
\* response.json() rejects; action is "", "mail" or "mail_auto"
ClientReply(kind, ok, action) == [kind |-> kind, ok |-> ok, action |-> action]
ClientReplies ==
    { ClientReply("json", TRUE, ""), ClientReply("json", TRUE, "mail"),
      ClientReply("json", TRUE, "mail_auto"), ClientReply("json", FALSE, ""),
      ClientReply("throw", FALSE, "") }
\* variant: no result is taken for stale
NeverStale(activePending, request) == FALSE
\* executePendingRequest, lines 311-315 and 340-343: the stored pending
\* request is gone or is another one
IsStale(activePending, request) ==
    ~activePending.set \/ activePending.requestId # request.requestId
\* resolvePendingMessage, lines 250-276: the list it applies (patch.content
\* is never empty: lines 325 and 338)
resolvePendingMessage(current, pendingMessageId, isError, from, action) ==
    LET found == \E k \in 1..Len(current) : current[k].id = pendingMessageId
        next == [k \in 1..Len(current) |->
                    IF current[k].id # pendingMessageId THEN current[k]
                    ELSE [current[k] EXCEPT !.isPending = FALSE, !.isError = isError,
                                            !.from = from, !.action = action]]
    IN  IF found THEN next
        ELSE Append(next, ChatMessage(pendingMessageId, "assistant", FALSE, isError, from,
                                      action))
\* sendMessage, lines 358-397, with executePendingRequest up to its await
\* (278-304), for an input that is not blank; the request id is new, so
\* activeRequests does not hold it (279)
sendMessage ==
    /\ ~isSending
    /\ requestsSent < MaxSends
    /\ LET n == requestsSent + 1
           request == PendingChatRequest(n)
       IN  /\ requestsSent' = n
           /\ storedMessages' =
                  storedMessages \o
                  << ChatMessage(UserMessageId(n), "user", FALSE, FALSE, 0, ""),
                     ChatMessage(PendingMessageId(n), "assistant", TRUE, FALSE, 0, "") >>
           /\ pendingRequest' = [set |-> TRUE, requestId |-> request.requestId,
                                 pendingMessageId |-> request.pendingMessageId]
           /\ activeRequests' = activeRequests \cup {request.requestId}
           /\ fetches' = fetches \cup {request}
           /\ isSending' = TRUE
    /\ UNCHANGED <<mailOpened, cleared, settled, vars, poolVars, chatVars, snapshotVars>>
\* clearChat, lines 404-409
clearChat ==
    /\ pendingRequest' = NoPending
    /\ storedMessages' = <<>>
    /\ isSending' = FALSE
    /\ cleared' = cleared \cup {request.requestId : request \in fetches}
    /\ UNCHANGED <<activeRequests, fetches, mailOpened, requestsSent, settled, vars, poolVars,
                   chatVars, snapshotVars>>
\* executePendingRequest, lines 304-355: the call made for `request` returns
Settle(request, reply) ==
    /\ fetches' = fetches \ {request}
    /\ settled' = settled \cup {request.requestId}
    /\ IF IsStale(pendingRequest, request)
       THEN UNCHANGED <<storedMessages, pendingRequest, mailOpened>>
       ELSE /\ storedMessages' =
                   resolvePendingMessage(storedMessages, request.pendingMessageId,
                                         ~(reply.kind = "json" /\ reply.ok), request.requestId,
                                         IF reply.kind = "json" /\ reply.ok /\ reply.action # ""
                                         THEN "mail" ELSE "")
            /\ pendingRequest' = NoPending
            /\ mailOpened' = IF reply.kind = "json" /\ reply.ok /\ reply.action = "mail_auto"
                             THEN mailOpened \cup {request.requestId} ELSE mailOpened
    /\ activeRequests' = activeRequests \ {request.requestId}
    /\ isSending' = FALSE
    /\ UNCHANGED <<requestsSent, cleared, vars, poolVars, chatVars, snapshotVars>>
\* the call made for the n-th request returns
Complete(n, reply) ==
    /\ PendingChatRequest(n) \in fetches
    /\ Settle(PendingChatRequest(n), reply)

ClientNext ==
    \/ sendMessage
    \/ clearChat
    \/ \E n \in 1..MaxSends : \E reply \in ClientReplies : Complete(n, reply)

ClientSpec == Init /\ [][ClientNext]_allVars

\* the call made for the request `id` returns in this step
Completes(id) ==
    \E request \in fetches : request.requestId = id /\ request \notin fetches'

\* C28: the result of a request that was in flight when the chat was
\* cleared is never written to the message list or to storage and never
\* opens the mail link, whether or not a new request was sent meanwhile.
C28_ClearedResultIsDropped ==
    /\ [](/\ \A k \in 1..Len(storedMessages) : storedMessages[k].from \notin cleared
          /\ mailOpened \cap cleared = {})
    /\ [][\A id \in cleared :
             Completes(id) => UNCHANGED <<storedMessages, pendingRequest, mailOpened>>]_allVars
\* C28 witness: the call of a cleared request has returned while a later
\* request was pending
C28_ClearedReturnedWhilePending ==
    \E id \in cleared \cap settled :
        /\ pendingRequest.set /\ pendingRequest.requestId > id
        /\ Len(storedMessages) = 2

\* C29: while the request sent last is recorded as pending, isSending is
\* true.
C29_SendingWhilePending == pendingRequest.set => isSending

(***************************************************************************)
(* getLinkedInSnapshot (part_002).  A call runs to its return without      *)
(* interruption; the promise it builds settles later, one callback at a    *)
(* time: catch, then, finally.                                             *)
(***************************************************************************)
CACHE_TTL_MS == 30000                  \* 30 * 1000
\* the number of calls of getLinkedInSnapshot
MaxCalls == 3
\* the number of times the clock moves, by half the time-to-live
MaxTicks == 3
\* how loadLinkedInSnapshotFile settles: with the file's snapshot, or
\* rejected because readFile, JSON.parse or normalizeSnapshot threw
LoadOutcome(rejected, data) == [rejected |-> rejected, data |-> data]
LoadOutcomes ==
    { LoadOutcome(FALSE, "file"), LoadOutcome(TRUE, "ENOENT"), LoadOutcome(TRUE, "SyntaxError") }
\* fallbackSnapshot, lines 187-206: built from the profile, cannot throw
fallbackSnapshot == "fallback"
\* variant: a rejected load stays rejected
StaysRejected(outcome) == outcome
\* .catch(() => fallbackSnapshot()), line 335
Recovered(outcome) == IF outcome.rejected THEN LoadOutcome(FALSE, fallbackSnapshot) ELSE outcome
\* a load, i.e. the promise stored in inFlight
Load(at, outcome, data) == [at |-> at, outcome |-> outcome, data |-> data]
NoOutcome == LoadOutcome(FALSE, "")
\* a call: the load it waits for (0: none) and what it got
SnapshotCall(at, awaits, data) == [at |-> at, awaits |-> awaits, data |-> data]
\* getLinkedInSnapshot, lines 326-348, up to its return
getLinkedInSnapshot ==
    /\ Len(snapshotCalls) < MaxCalls
    /\ IF cacheEntry.set /\ cacheEntry.expiresAt > now
       THEN /\ snapshotCalls' = Append(snapshotCalls, SnapshotCall("returned", 0, cacheEntry.data))
            /\ UNCHANGED <<inFlight, loads>>
       ELSE IF inFlight # 0
       THEN /\ snapshotCalls' = Append(snapshotCalls, SnapshotCall("waiting", inFlight, ""))
            /\ UNCHANGED <<inFlight, loads>>
       ELSE /\ loads' = Append(loads, Load("loading", NoOutcome, ""))
            /\ inFlight' = Len(loads) + 1
            /\ snapshotCalls' = Append(snapshotCalls, SnapshotCall("waiting", Len(loads) + 1, ""))
    /\ UNCHANGED <<cacheEntry, vars, poolVars, chatVars, clientVars>>
\* lines 334-342: loadLinkedInSnapshotFile has settled; the catch and then
\* callbacks of load k run
LoadSettled(k, outcome) ==
    /\ k \in 1..Len(loads) /\ loads[k].at = "loading"
    /\ LET recovered == Recovered(outcome)
       IN  IF recovered.rejected
           THEN /\ loads' = [loads EXCEPT ![k] = Load("rejected", outcome, "")]
                /\ UNCHANGED cacheEntry
           ELSE /\ loads' = [loads EXCEPT ![k] = Load("cached", outcome, recovered.data)]
                /\ cacheEntry' = [set |-> TRUE, data |-> recovered.data,
                                  expiresAt |-> now + CACHE_TTL_MS]
    /\ UNCHANGED <<inFlight, snapshotCalls, vars, poolVars, chatVars, clientVars>>
\* lines 343-345: the finally callback of load k runs and the promise
\* settles for the calls that wait for it
LoadFinally(k) ==
    /\ k \in 1..Len(loads) /\ loads[k].at \in {"cached", "rejected"}
    /\ inFlight' = 0
    /\ loads' = [loads EXCEPT ![k].at = IF @ = "cached" THEN "fulfilled" ELSE "failed"]
    /\ snapshotCalls' =
           [c \in 1..Len(snapshotCalls) |->
               IF snapshotCalls[c].at = "waiting" /\ snapshotCalls[c].awaits = k
               THEN SnapshotCall(IF loads[k].at = "cached" THEN "returned" ELSE "rejected", k,
                                 loads[k].data)
               ELSE snapshotCalls[c]]
    /\ UNCHANGED <<cacheEntry, vars, poolVars, chatVars, clientVars>>
\* the clock moves by half the time-to-live
SnapshotTick ==
    /\ now < MaxTicks * (CACHE_TTL_MS \div 2)
    /\ now' = now + (CACHE_TTL_MS \div 2)
    /\ UNCHANGED <<env, modelPoolCache, rotationCursor, requestVars, otherVars>>

SnapshotNext ==
    \/ getLinkedInSnapshot
    \/ \E k \in 1..MaxCalls : \E outcome \in LoadOutcomes : LoadSettled(k, outcome)
    \/ \E k \in 1..MaxCalls : LoadFinally(k)
    \/ SnapshotTick

SnapshotSpec == Init /\ [][SnapshotNext]_allVars

\* the loads that have not settled
InProgress == {k \in 1..Len(loads) : loads[k].at \notin {"fulfilled", "failed"}}
\* C30: getLinkedInSnapshot is single-flight.  At most one load is in
\* progress; a call made during a load waits for that load and gets its
\* result; the in-flight marker is set exactly while a load is in
\* progress; no call rejects; a failed load gives the fallback snapshot,
\* which is cached for 30 seconds.
C30_SingleFlight ==
    /\ [](/\ Cardinality(InProgress) <= 1
          /\ InProgress = IF inFlight = 0 THEN {} ELSE {inFlight}
          /\ \A c \in 1..Len(snapshotCalls) :
                 LET call == snapshotCalls[c]
                 IN  /\ call.at # "rejected"
                     /\ call.at = "waiting" => call.awaits = inFlight
                     /\ (call.at = "returned" /\ call.awaits # 0) =>
                            /\ loads[call.awaits].at = "fulfilled"
                            /\ call.data = loads[call.awaits].data
                            /\ call.data = IF loads[call.awaits].outcome.rejected
                                           THEN "fallback" ELSE "file")
    /\ [][\A k \in 1..Len(loads) :
             (loads[k].at = "loading" /\ loads'[k].at # "loading" /\ loads'[k].outcome.rejected)
                 => cacheEntry' = [set |-> TRUE, data |-> "fallback", expiresAt |-> now + 30000]]_allVars
\* C30 witness: two calls shared a load that failed, both got the fallback
\* snapshot, and a call made after the cached fallback had expired started a
\* second load
C30_SharedFailedLoad ==
    /\ Len(snapshotCalls) = 3 /\ Len(loads) = 2
    /\ snapshotCalls[1] = SnapshotCall("returned", 1, "fallback")
    /\ snapshotCalls[2] = SnapshotCall("returned", 1, "fallback")
    /\ snapshotCalls[3].awaits = 2
    /\ loads[1].outcome.rejected

====

